---- MODULE Spec2Model ----
(***************************************************************************)
(* Cre8Worthy: the price form (src/ui.py), the pricing engine              *)
(* (src/pricing.py), the oracle client (src/gemini_api.py) and the ledger  *)
(* (src/data_utils.py).                                                    *)
(*                                                                         *)
(* Texts are sequences of one-character strings, so that strip(), lower(), *)
(* substring tests and the regular expressions of the code are computed as *)
(* the code computes them.                                                 *)
(***************************************************************************)
EXTENDS Integers, Sequences, FiniteSets, TLC

VARIABLES
    entry_other_type,   \* raw content of the custom product-type Entry widget
    var_type,           \* self.var_type (the product-type combobox variable)
    focus,              \* the custom product-type Entry has the keyboard focus
    key_bound,          \* <KeyRelease> is bound to start_input_check_timer
    input_timer,        \* self.input_timer: None or the id of the last timer made
    after_timers,       \* Tk's pending root.after callbacks for finish_typing
    last_other_value,   \* self.last_other_value
    since_key,          \* ms since <KeyRelease> was last handled (saturating)
    stack,              \* handlers suspended inside root.update(), innermost last
    additional_fields_entries, \* keys of self.additional_fields_entries
    interactions,       \* rows of table gemini_interactions, in insertion order
    settled_calls,      \* classification oracle calls since the text last changed
    pause_calls,        \* finish_typing classifications since the last <KeyRelease>
    last_op,            \* the step just taken and what it observed
    entry_artist,       \* raw content of the artist Entry
    entry_market,       \* raw content of the target-market Entry
    entries,            \* self.entries: raw content of each numeric Entry, by key
    listbox_canvas,     \* items of the left material Listbox
    listbox_other,      \* items of the right material Listbox
    canvas_selection,   \* indices selected in listbox_canvas
    other_selection,    \* indices selected in listbox_other
    entry_canvas_material, \* raw content of the custom material Entry (left)
    entry_other_material,  \* raw content of the custom material Entry (right)
    result_text,        \* what the result Text widget shows
    global_error_label, \* text of the global error Label
    ledger,             \* rows appended to the CSV data file, in order
    oracle_log,         \* texts consult_api_gemini returned to its callers, in order
    call,               \* arguments of a direct call of pricing.calculate_price
    returned,           \* what that call returned
    df,                 \* AdminDashboard.df: the dataframe on display, or none
    csv_path,           \* AdminDashboard.csv_path
    filter_var,         \* the "Filter by" combobox of the dashboard
    filter_entry,       \* the search term of the dashboard
    tree_columns        \* the column headings of the dashboard's table

ctlVars == <<entry_other_type, var_type, focus, key_bound, input_timer, after_timers,
          last_other_value, since_key, stack, additional_fields_entries,
          interactions, settled_calls, pause_calls, last_op>>
fieldVars == <<entry_artist, entry_market, entries, entry_canvas_material,
               entry_other_material>>
listVars == <<listbox_canvas, listbox_other, canvas_selection, other_selection>>
outVars == <<result_text, ledger>>
engineVars == <<call, returned>>
adminVars == <<df, csv_path, filter_var, filter_entry, tree_columns>>
vars == <<ctlVars, fieldVars, listVars, outVars, engineVars, adminVars, global_error_label,
          oracle_log>>

----------------------------------------------------------------------------
(* Bounds of the model *)

\* longest raw text the custom product-type field holds
MaxLen == 2
\* rows the interaction table may hold before oracle calls stop
MaxRows == 6
\* handlers that may be suspended in root.update() at once
MaxDepth == 2
\* ids Tk may hand out while older ids are still referenced
MaxTimerIds == 3
\* ms that pass in one Tick
TickMs == 500

\* self.typing_pause_interval
typing_pause_interval == 1000

None == 0
TimerIds == 1..MaxTimerIds

----------------------------------------------------------------------------
(* Text primitives *)

Space == " "

RECURSIVE LStrip(_)
LStrip(s) ==
    IF s = <<>> THEN s
    ELSE IF Head(s) = Space THEN LStrip(Tail(s)) ELSE s

RECURSIVE RStrip(_)
RStrip(s) ==
    IF s = <<>> THEN s
    ELSE IF s[Len(s)] = Space THEN RStrip(SubSeq(s, 1, Len(s) - 1)) ELSE s

\* str.strip()
Strip(s) == RStrip(LStrip(s))

\* characters the user can type into the custom product-type field
TypeChars == {"a", Space}

----------------------------------------------------------------------------
(* Tk timers: root.after / root.after_cancel *)

\* root.after_cancel(id): removes the pending callback with that id, if any
after_cancel(timers, id) == {t \in timers : t.id # id}

\* ids still referenced by the program or by Tk
UsedIds(timers, current) == {t.id : t \in timers} \cup {current}

\* root.after returns an id that is not in use
FreshId(timers, current) ==
    CHOOSE i \in TimerIds : i \notin UsedIds(timers, current)

HasFreshId(timers, current) == TimerIds \ UsedIds(timers, current) # {}

\* root.after(ms, lambda: self.finish_typing(value))
after(timers, id, ms, value) ==
    timers \cup {[id |-> id, value |-> value, remaining |-> ms]}

----------------------------------------------------------------------------
(* More text primitives: lower(), the "in" substring test *)

LowerChar(c) ==
    CASE c = "A" -> "a" []
        c = "B" -> "b" []
        c = "C" -> "c" []
        c = "D" -> "d" []
        c = "E" -> "e" []
        c = "F" -> "f" []
        c = "G" -> "g" []
        c = "H" -> "h" []
        c = "I" -> "i" []
        c = "J" -> "j" []
        c = "K" -> "k" []
        c = "L" -> "l" []
        c = "M" -> "m" []
        c = "N" -> "n" []
        c = "O" -> "o" []
        c = "P" -> "p" []
        c = "Q" -> "q" []
        c = "R" -> "r" []
        c = "S" -> "s" []
        c = "T" -> "t" []
        c = "U" -> "u" []
        c = "V" -> "v" []
        c = "W" -> "w" []
        c = "X" -> "x" []
        c = "Y" -> "y" []
        c = "Z" -> "z" []
         OTHER -> c

\* str.lower()
Lower(s) == [i \in 1..Len(s) |-> LowerChar(s[i])]

\* kw in s
Contains(s, kw) ==
    \E i \in 1..(Len(s) - Len(kw) + 1) : SubSeq(s, i, i + Len(kw) - 1) = kw

API_ERROR_PREFIX == <<"A", "P", "I", " ", "E", "r", "r", "o", "r", ":", " ">>
KW_digital == <<"d", "i", "g", "i", "t", "a", "l">>
KW_3d == <<"3", "d">>
KW_three_dimensional == <<"t", "h", "r", "e", "e", "-", "d", "i", "m", "e", "n", "s", "i", "o", "n", "a", "l">>
KW_sculpture == <<"s", "c", "u", "l", "p", "t", "u", "r", "e">>
KW_installation == <<"i", "n", "s", "t", "a", "l", "l", "a", "t", "i", "o", "n">>
KW_height == <<"h", "e", "i", "g", "h", "t">>
KW_dimension == <<"d", "i", "m", "e", "n", "s", "i", "o", "n">>
KW_weight == <<"w", "e", "i", "g", "h", "t">>
KW_mass == <<"m", "a", "s", "s">>
KW_duration == <<"d", "u", "r", "a", "t", "i", "o", "n">>
KW_length == <<"l", "e", "n", "g", "t", "h">>
KW_resolution == <<"r", "e", "s", "o", "l", "u", "t", "i", "o", "n">>
KW_quality == <<"q", "u", "a", "l", "i", "t", "y">>
KW_yes == <<"y", "e", "s">>

----------------------------------------------------------------------------
(* The oracle client, src/gemini_api.py *)

\* What the remote model does with one request: it answers with a text
\* (ok) or generate_content raises an exception whose str() is the text.
Answer(text) == [ok |-> TRUE, text |-> text]
Raises(text) == [ok |-> FALSE, text |-> text]

\* store_interaction: one INSERT; id is the AUTOINCREMENT key
store_interaction(rows, request_type, prompt, response) ==
    Append(rows, [id |-> Len(rows) + 1, request_type |-> request_type,
                  prompt |-> prompt, response |-> response])

\* consult_api_gemini without its except clause
consult_api_gemini_uncaught(rows, prompt, request_type, outcome) ==
    IF outcome.ok
    THEN [rows |-> store_interaction(rows, request_type, prompt, outcome.text),
          ret |-> outcome.text, raised |-> FALSE]
    ELSE [rows |-> rows, ret |-> <<>>, raised |-> TRUE]

\* consult_api_gemini that records only the calls that succeed
consult_api_gemini_unrecorded(rows, prompt, request_type, outcome) ==
    IF outcome.ok
    THEN [rows |-> store_interaction(rows, request_type, prompt, outcome.text),
          ret |-> outcome.text, raised |-> FALSE]
    ELSE [rows |-> rows, ret |-> API_ERROR_PREFIX \o outcome.text, raised |-> FALSE]

\* consult_api_gemini: the rows afterwards, the text returned, and whether
\* an exception leaves the function (the except clause catches them all)
consult_api_gemini(rows, prompt, request_type, outcome) ==
    IF outcome.ok
    THEN [rows |-> store_interaction(rows, request_type, prompt, outcome.text),
          ret |-> outcome.text, raised |-> FALSE]
    ELSE LET error_msg == API_ERROR_PREFIX \o outcome.text
         IN [rows |-> store_interaction(rows, request_type, prompt, error_msg),
             ret |-> error_msg, raised |-> FALSE]

\* get_product_type_requirements
get_product_type_requirements(rows, type_produit, outcome) ==
    consult_api_gemini(rows, [ask |-> "requirements", type |-> type_produit],
                       "product_requirements", outcome)

\* get_recommended_materials: the oracle call (the parsed lists fill the
\* material listboxes)
get_recommended_materials(rows, product_type, outcome) ==
    consult_api_gemini(rows, [ask |-> "materials", type |-> product_type],
                       "material_recommendation", outcome)

\* the material lists the form starts with and falls back to
DEFAULT_CANVAS_MATERIALS ==
    <<<<"C", "a", "n", "v", "a", "s">>,
      <<"C", "o", "t", "t", "o", "n">>,
      <<"L", "i", "n", "e", "n">>,
      <<"S", "i", "l", "k">>,
      <<"P", "a", "p", "e", "r">>,
      <<"O", "t", "h", "e", "r">>>>
DEFAULT_OTHER_MATERIALS ==
    <<<<"W", "o", "o", "d">>,
      <<"A", "c", "r", "y", "l", "i", "c">>,
      <<"O", "i", "l">>,
      <<"C", "l", "a", "y">>,
      <<"M", "e", "t", "a", "l">>,
      <<"G", "l", "a", "s", "s">>,
      <<"P", "l", "a", "s", "t", "i", "c">>,
      <<"O", "t", "h", "e", "r">>>>

Comma == ","

\* response.split(',')
RECURSIVE SplitComma(_)
SplitComma(s) ==
    IF \A i \in 1..Len(s) : s[i] # Comma THEN <<s>>
    ELSE LET i == CHOOSE k \in 1..Len(s) :
                      s[k] = Comma /\ \A j \in 1..(k - 1) : s[j] # Comma
         IN <<SubSeq(s, 1, i - 1)>> \o SplitComma(SubSeq(s, i + 1, Len(s)))

\* [mat.strip() for mat in parts if mat.strip()]
RECURSIVE StripAll(_)
StripAll(parts) ==
    IF parts = <<>> THEN <<>>
    ELSE (IF Strip(Head(parts)) # <<>> THEN <<Strip(Head(parts))>> ELSE <<>>)
         \o StripAll(Tail(parts))

\* the dict get_recommended_materials makes of an answer that holds no JSON
\* object: the comma-separated names split in two halves, or the defaults
recommended_materials(response) ==
    LET materials == StripAll(SplitComma(Strip(response)))
        mid == Len(materials) \div 2
    IN IF materials # <<>>
       THEN [canvas |-> SubSeq(materials, 1, mid),
             other |-> SubSeq(materials, mid + 1, Len(materials))]
       ELSE [canvas |-> DEFAULT_CANVAS_MATERIALS, other |-> DEFAULT_OTHER_MATERIALS]

\* the items update_materials_section_for_product_type puts in the listboxes
listbox_items(response) ==
    LET api_materials == recommended_materials(response)
    IN [canvas |-> IF api_materials.canvas # <<>> THEN api_materials.canvas
                   ELSE DEFAULT_CANVAS_MATERIALS,
        other |-> IF api_materials.other # <<>> THEN api_materials.other
                  ELSE DEFAULT_OTHER_MATERIALS]

----------------------------------------------------------------------------
(* Numbers in texts and exact arithmetic *)

Digits == {"0", "1", "2", "3", "4", "5", "6", "7", "8", "9"}

DigitVal(c) ==
    CASE c = "0" -> 0 [] c = "1" -> 1 [] c = "2" -> 2 [] c = "3" -> 3 [] c = "4" -> 4
      [] c = "5" -> 5 [] c = "6" -> 6 [] c = "7" -> 7 [] c = "8" -> 8 [] c = "9" -> 9

\* int() of a text of digits
RECURSIVE IntOf(_)
IntOf(s) ==
    IF s = <<>> THEN 0
    ELSE 10 * IntOf(SubSeq(s, 1, Len(s) - 1)) + DigitVal(s[Len(s)])

\* length of the run of digits that starts at position i
RECURSIVE DigitRun(_, _)
DigitRun(s, i) ==
    IF i > Len(s) \/ s[i] \notin Digits THEN 0 ELSE 1 + DigitRun(s, i + 1)

\* length of the run of whitespace that starts at position i
RECURSIVE SpaceRun(_, _)
SpaceRun(s, i) ==
    IF i > Len(s) \/ s[i] # Space THEN 0 ELSE 1 + SpaceRun(s, i + 1)

\* re.search(r"(\d+)", s): the first run of digits, if any
FirstDigits(s) ==
    IF \E i \in 1..Len(s) : s[i] \in Digits
    THEN LET i == CHOOSE k \in 1..Len(s) :
                     /\ s[k] \in Digits
                     /\ \A j \in 1..(k - 1) : s[j] \notin Digits
         IN [found |-> TRUE, text |-> SubSeq(s, i, i + DigitRun(s, i) - 1)]
    ELSE [found |-> FALSE, text |-> <<>>]

\* the end of the match of \d+(?:\s*\d+)* that starts at digit position i
RECURSIVE NumberMatchEnd(_, _)
NumberMatchEnd(s, i) ==
    LET e == i + DigitRun(s, i)
        n == e + SpaceRun(s, e)
    IN IF n <= Len(s) /\ s[n] \in Digits THEN NumberMatchEnd(s, n) ELSE e

\* re.findall(r'(\d+(?:\s*\d+)*)', s) from position i on
RECURSIVE FindAllNumbers(_, _)
FindAllNumbers(s, i) ==
    IF i > Len(s) THEN <<>>
    ELSE IF s[i] \notin Digits THEN FindAllNumbers(s, i + 1)
    ELSE LET e == NumberMatchEnd(s, i)
         IN <<SubSeq(s, i, e - 1)>> \o FindAllNumbers(s, e)

\* re.sub(r'\s', '', m)
RECURSIVE RemoveSpaces(_)
RemoveSpaces(s) ==
    IF s = <<>> THEN s
    ELSE IF Head(s) = Space THEN RemoveSpaces(Tail(s))
    ELSE <<Head(s)>> \o RemoveSpaces(Tail(s))

RECURSIVE SumSeq(_)
SumSeq(q) == IF q = <<>> THEN 0 ELSE Head(q) + SumSeq(Tail(q))

Abs(x) == IF x < 0 THEN -x ELSE x

RECURSIVE Gcd(_, _)
Gcd(a, b) == IF b = 0 THEN a ELSE Gcd(b, a % b)

\* the numbers of the price formula are kept exact, as fractions in lowest
\* terms with a positive denominator
Q(n, d) ==
    LET g == Gcd(Abs(n), Abs(d))
        sg == IF d < 0 THEN -1 ELSE 1
    IN [n |-> sg * (n \div g), d |-> sg * (d \div g)]

QInt(n) == [n |-> n, d |-> 1]
QAdd(a, b) == Q(a.n * b.d + b.n * a.d, a.d * b.d)
QMul(a, b) == Q(a.n * b.n, a.d * b.d)
QDiv(a, b) == Q(a.n * b.d, a.d * b.n)
QLess(a, b) == a.n * b.d < b.n * a.d
QMax(a, b) == IF QLess(a, b) THEN b ELSE a
QMin(a, b) == IF QLess(a, b) THEN a ELSE b

----------------------------------------------------------------------------
(* Requirement flags from the oracle's text *)

\* the fallback made to remember an earlier calculation: once the ledger
\* holds a row every product is taken for digital
pricing_requirements_stateful(requirements) ==
    LET req_str == Lower(requirements)
    IN [is_digital |-> Contains(req_str, KW_digital) \/ ledger # <<>>,
        is_3d |-> \E term \in {KW_3d, KW_three_dimensional, KW_sculpture,
                               KW_installation} : Contains(req_str, term),
        needs_height |-> Contains(req_str, KW_height) \/ Contains(req_str, KW_dimension),
        needs_weight |-> Contains(req_str, KW_weight) \/ Contains(req_str, KW_mass),
        needs_duration |-> Contains(req_str, KW_duration) \/ Contains(req_str, KW_length),
        needs_resolution |-> Contains(req_str, KW_resolution) \/ Contains(req_str, KW_quality)]

\* pricing.calculate_price, the keyword fallback (consult_api_gemini always
\* returns a str, so the isinstance branch is always taken)
pricing_requirements(requirements) ==
    LET req_str == Lower(requirements)
    IN [is_digital |-> Contains(req_str, KW_digital),
        is_3d |-> \E term \in {KW_3d, KW_three_dimensional, KW_sculpture,
                               KW_installation} : Contains(req_str, term),
        needs_height |-> Contains(req_str, KW_height) \/ Contains(req_str, KW_dimension),
        needs_weight |-> Contains(req_str, KW_weight) \/ Contains(req_str, KW_mass),
        needs_duration |-> Contains(req_str, KW_duration) \/ Contains(req_str, KW_length),
        needs_resolution |-> Contains(req_str, KW_resolution) \/ Contains(req_str, KW_quality)]

\* update_additional_costs_for_other_type, its own copy of the fallback
other_type_requirements(requirements) ==
    LET req_str == Lower(requirements)
    IN [is_digital |-> Contains(req_str, KW_digital),
        is_3d |-> \E term \in {KW_3d, KW_three_dimensional, KW_sculpture,
                               KW_installation} : Contains(req_str, term),
        needs_height |-> Contains(req_str, KW_height) \/ Contains(req_str, KW_dimension),
        needs_weight |-> Contains(req_str, KW_weight) \/ Contains(req_str, KW_mass),
        needs_duration |-> Contains(req_str, KW_duration) \/ Contains(req_str, KW_length),
        needs_resolution |-> Contains(req_str, KW_resolution) \/ Contains(req_str, KW_quality)]

\* update_cost_fields_labels, its copy of the fallback: no keyword for the
\* height, other keywords for the weight and the duration
cost_fields_requirements(requirements) ==
    LET req_str == Lower(requirements)
    IN [is_digital |-> Contains(req_str, KW_digital),
        is_3d |-> \E term \in {KW_3d, KW_three_dimensional, KW_sculpture,
                               KW_installation} : Contains(req_str, term),
        needs_height |-> \E term \in {} : Contains(req_str, term),
        needs_weight |-> \E term \in {KW_weight, KW_mass, <<"s", "i", "z", "e">>,
                                      KW_dimension \o <<"s">>,
                                      <<"p", "h", "y", "s", "i", "c", "a", "l">>} :
                             Contains(req_str, term),
        needs_duration |-> \E term \in {<<"v", "i", "d", "e", "o">>,
                                        <<"v", "i", "d", "e", "o", "g", "r", "a", "p", "h", "y">>,
                                        <<"f", "i", "l", "m">>,
                                        <<"f", "i", "l", "m", "o", "g", "r", "a", "p", "h", "y">>} :
                               Contains(req_str, term),
        needs_resolution |-> Contains(req_str, KW_resolution) \/ Contains(req_str, KW_quality)]

\* the loop over requirements.items(): one field per required needs_* flag,
\* keyed by the flag's name without "needs_"
required_field_keys(req) ==
    {k \in {"height", "weight", "duration", "resolution"} :
        \/ k = "height" /\ req.needs_height
        \/ k = "weight" /\ req.needs_weight
        \/ k = "duration" /\ req.needs_duration
        \/ k = "resolution" /\ req.needs_resolution}

----------------------------------------------------------------------------
(* The pricing engine, src/pricing.py, and the ledger, src/data_utils.py *)

\* a value of the dict "values": a float, or a str (resolution)
Num(n) == [t |-> "num", n |-> n, s |-> <<>>]
Str(s) == [t |-> "str", n |-> 0, s |-> s]

\* values.get(key, 0)
ValueGet(values, key) == IF key \in DOMAIN values THEN values[key].n ELSE 0

KW_4K == <<"4", "K">>
KW_8K == <<"8", "K">>
KW_2K == <<"2", "K">>
KW_FullHD == <<"F", "u", "l", "l", " ", "H", "D">>
KW_HD == <<"H", "D">>

\* check_known_artist
check_known_artist(rows, artiste, outcome) ==
    LET r == consult_api_gemini(rows, [ask |-> "artist", artiste |-> artiste],
                                "artist_recognition", outcome)
    IN [rows |-> r.rows, ret |-> r.ret, raised |-> r.raised,
        known |-> Contains(Lower(r.ret), KW_yes)]

\* get_artist_price: the mean of the numbers found in the answer, or None
get_artist_price(rows, artiste, type_produit, outcome) ==
    LET r == consult_api_gemini(rows, [ask |-> "artist_price", artiste |-> artiste,
                                       type |-> type_produit],
                                "artist_price_check", outcome)
        matches == FindAllNumbers(r.ret, 1)
        nums == [i \in 1..Len(matches) |-> IntOf(RemoveSpaces(matches[i]))]
    IN [rows |-> r.rows, ret |-> r.ret, raised |-> r.raised,
        some |-> matches # <<>>,
        price |-> IF matches # <<>> THEN Q(SumSeq(nums), Len(nums)) ELSE QInt(0)]

\* get_starting_price_from_gpt
get_starting_price_from_gpt(rows, type_produit, artiste, marche, materiaux, dimensions, poids, resolution, duration, is_digital, outcome) ==
    consult_api_gemini(rows,
        [ask |-> "price", type |-> type_produit, artiste |-> artiste,
         marche |-> marche, materiaux |-> materiaux, dimensions |-> dimensions,
         poids |-> poids, resolution |-> resolution, duration |-> duration,
         is_digital |-> is_digital],
        "price_recommendation", outcome)

\* the dimension factor with each step of the pixel area one pixel later
dimension_factor_of_inclusive(values, is_digital, is_3d, height_val, weight_val) ==
    LET l == values["longueur"].n
        w == values["largeur"].n
    IN IF is_digital
       THEN LET pixel_area == l * w
            IN IF pixel_area > 0
               THEN [factor |-> IF pixel_area <= 1000000 THEN Q(8, 10)
                                ELSE IF pixel_area <= 4000000 THEN Q(10, 10)
                                ELSE IF pixel_area <= 8000000 THEN Q(12, 10)
                                ELSE Q(15, 10),
                     dimensions |-> [unit |-> "px", dims |-> <<l, w>>]]
               ELSE [factor |-> QInt(1),
                     dimensions |-> [unit |-> "Unknown", dims |-> <<>>]]
       ELSE IF is_3d
       THEN LET volume == l * w * height_val
                by_volume == QMax(QInt(1), Q(volume, 1000))
                weight_factor == QMax(QInt(1), Q(weight_val, 5))
            IN [factor |-> QDiv(QAdd(by_volume, weight_factor), QInt(2)),
                dimensions |-> [unit |-> "cm", dims |-> <<l, w, height_val>>]]
       ELSE LET surface == l * w
            IN [factor |-> QMax(QInt(1), Q(surface, 100)),
                dimensions |-> [unit |-> "cm", dims |-> <<l, w>>]]

\* the dimension factor and the dimensions text (pricing.py:43-74)
dimension_factor_of(values, is_digital, is_3d, height_val, weight_val) ==
    LET l == values["longueur"].n
        w == values["largeur"].n
    IN IF is_digital
       THEN LET pixel_area == l * w
            IN IF pixel_area > 0
               THEN [factor |-> IF pixel_area < 1000000 THEN Q(8, 10)
                                ELSE IF pixel_area < 4000000 THEN Q(10, 10)
                                ELSE IF pixel_area < 8000000 THEN Q(12, 10)
                                ELSE Q(15, 10),
                     dimensions |-> [unit |-> "px", dims |-> <<l, w>>]]
               ELSE [factor |-> QInt(1),
                     dimensions |-> [unit |-> "Unknown", dims |-> <<>>]]
       ELSE IF is_3d
       THEN LET volume == l * w * height_val
                by_volume == QMax(QInt(1), Q(volume, 1000))
                weight_factor == QMax(QInt(1), Q(weight_val, 5))
            IN [factor |-> QDiv(QAdd(by_volume, weight_factor), QInt(2)),
                dimensions |-> [unit |-> "cm", dims |-> <<l, w, height_val>>]]
       ELSE LET surface == l * w
            IN [factor |-> QMax(QInt(1), Q(surface, 100)),
                dimensions |-> [unit |-> "cm", dims |-> <<l, w>>]]

\* the factors of the dynamic fields (pricing.py:84-103)
additional_factors_of(values) ==
    LET by_resolution ==
            IF "resolution" \in DOMAIN values /\ values["resolution"].t = "str"
            THEN LET v == values["resolution"].s
                 IN IF Contains(v, KW_4K) \/ Contains(v, KW_8K) THEN Q(14, 10)
                    ELSE IF Contains(v, KW_2K) \/ Contains(v, KW_FullHD) THEN Q(12, 10)
                    ELSE IF Contains(v, KW_HD) THEN Q(11, 10)
                    ELSE QInt(1)
            ELSE QInt(1)
        by_duration ==
            IF "duration" \in DOMAIN values /\ values["duration"].n > 0
            THEN QMin(QInt(3), QAdd(QInt(1), Q(values["duration"].n, 60)))
            ELSE QInt(1)
    IN QMul(by_resolution, by_duration)

\* the price with the reputation bonus given to every artist
price_of_always_bonus(values, materiaux_selectionnes, market_demand, is_known, reference, is_digital, dimension_factor) ==
    LET base_cost == values["materiaux"].n + values["livraison"].n + values["pub"].n
        time_cost == values["temps"].n * 15
        reputation_bonus == 50
        complexity == QAdd(QInt(1), Q(Len(materiaux_selectionnes), 10))
        market_rarity == QAdd(Q(8, 10), Q(5 * market_demand, 100))
        price == QMul(QMul(QMul(QMul(QInt(base_cost + time_cost + reputation_bonus),
                                     complexity), market_rarity), dimension_factor),
                      additional_factors_of(values))
        averaged == IF is_known /\ reference.some /\ reference.price.n # 0
                    THEN QDiv(QAdd(price, reference.price), QInt(2))
                    ELSE price
    IN IF is_digital /\ "resolution" \in DOMAIN values
       THEN QMul(averaged,
                 QAdd(QInt(1), Q(IF "resolution_factor" \in DOMAIN values
                                 THEN values["resolution_factor"].n ELSE 1, 10)))
       ELSE averaged

\* the price without the rarity of the market
price_of_flat_rarity(values, materiaux_selectionnes, market_demand, is_known, reference, is_digital, dimension_factor) ==
    LET base_cost == values["materiaux"].n + values["livraison"].n + values["pub"].n
        time_cost == values["temps"].n * 15
        reputation_bonus == IF is_known THEN 50 ELSE 0
        complexity == QAdd(QInt(1), Q(Len(materiaux_selectionnes), 10))
        market_rarity == QInt(1)
        price == QMul(QMul(QMul(QMul(QInt(base_cost + time_cost + reputation_bonus),
                                     complexity), market_rarity), dimension_factor),
                      additional_factors_of(values))
        averaged == IF is_known /\ reference.some /\ reference.price.n # 0
                    THEN QDiv(QAdd(price, reference.price), QInt(2))
                    ELSE price
    IN IF is_digital /\ "resolution" \in DOMAIN values
       THEN QMul(averaged,
                 QAdd(QInt(1), Q(IF "resolution_factor" \in DOMAIN values
                                 THEN values["resolution_factor"].n ELSE 1, 10)))
       ELSE averaged

\* the price (pricing.py:79-119)
price_of(values, materiaux_selectionnes, market_demand, is_known, reference, is_digital, dimension_factor) ==
    LET base_cost == values["materiaux"].n + values["livraison"].n + values["pub"].n
        time_cost == values["temps"].n * 15
        reputation_bonus == IF is_known THEN 50 ELSE 0
        complexity == QAdd(QInt(1), Q(Len(materiaux_selectionnes), 10))
        market_rarity == QAdd(Q(8, 10), Q(5 * market_demand, 100))
        price == QMul(QMul(QMul(QMul(QInt(base_cost + time_cost + reputation_bonus),
                                     complexity), market_rarity), dimension_factor),
                      additional_factors_of(values))
        averaged == IF is_known /\ reference.some /\ reference.price.n # 0
                    THEN QDiv(QAdd(price, reference.price), QInt(2))
                    ELSE price
    IN IF is_digital /\ "resolution" \in DOMAIN values
       THEN QMul(averaged,
                 QAdd(QInt(1), Q(IF "resolution_factor" \in DOMAIN values
                                 THEN values["resolution_factor"].n ELSE 1, 10)))
       ELSE averaged

\* f"{price:.2f}": the price in hundredths, rounded to the nearest
Format2f(price) == [fmt |-> ".2f", cents |-> (2 * 100 * price.n + price.d) \div (2 * price.d)]

\* format_save_data: the 16 fields of a ledger row, without the timestamp's value
format_save_data(artist, market, product_type, materials_text, length, width, height, weight, material_cost, shipping_cost, ad_cost, time_spent, final_price, market_demand, ai_price) ==
    <<"now", artist, market, product_type, materials_text, length, width, height,
      weight, material_cost, shipping_cost, ad_cost, time_spent, final_price,
      market_demand, ai_price>>

\* the header row initialize_data_file writes (data_utils.py:15-20)
DATA_HEADER ==
    <<"Date", "Artist", "Market", "Type", "Materials", "Length (cm)", "Width (cm)",
      "Height (cm)", "Weight (kg)", "Material Cost (€)", "Shipping Cost (€)",
      "Advertising Cost (€)", "Creation Time (h)", "Final Price (€)",
      "Market Demand (1-10)", "AI Price Recommendation (€)">>

\* initialize_data_file: the rows under the header afterwards; a file that
\* exists is left as it is, a missing one is created with the header alone
initialize_data_file(exists, data_file) ==
    IF ~exists THEN <<>> ELSE data_file

\* save_to_file opening the file with mode 'w'
save_to_file_overwrite(data_file, data_row, writable) ==
    IF writable THEN [ledger |-> <<data_row>>, raised |-> FALSE]
    ELSE [ledger |-> data_file, raised |-> TRUE]

\* save_to_file: the ledger afterwards; open() or the write may fail
save_to_file(data_file, data_row, writable) ==
    IF writable THEN [ledger |-> Append(data_file, data_row), raised |-> FALSE]
    ELSE [ledger |-> data_file, raised |-> TRUE]

\* no PriceResult: the call ended in an exception
NoResult == [null |-> TRUE]

\* what calculate_price leaves when an exception ends it
Aborted(rows, data_file, rets, computed) ==
    [rows |-> rows, ledger |-> data_file, raised |-> TRUE, result |-> NoResult,
     rets |-> rets, computed |-> computed, numbers |-> [none |-> TRUE]]

\* the PriceResult and the ledger row, saved (pricing.py:130-157); a: the
\* arguments of calculate_price, r1..r5: the oracle requests, m: the numbers
\* computed from them
price_result(a, r1, r2, r3, r4, r5, m) ==
    [prix |-> m.price,
     demande_marche |-> m.market_demand,
     dimensions |-> m.dim.dimensions,
     materiaux |-> m.materials_text,
     artiste_connu |-> r3.known,
     gemini_price |-> r5.ret,
     height |-> IF a.is_3d THEN [v |-> m.height_val] ELSE [blank |-> TRUE],
     weight |-> IF a.is_3d THEN [v |-> m.weight_val] ELSE [blank |-> TRUE]]

save_result(a, r1, r2, r3, r4, r5, m, result) ==
    save_to_file(a.data_file,
        format_save_data(a.artiste, a.marche, a.type_produit, m.materials_text,
            a.values["longueur"].n, a.values["largeur"].n, result.height,
            result.weight, a.values["materiaux"].n, a.values["livraison"].n,
            a.values["pub"].n, a.values["temps"].n, Format2f(m.price),
            m.market_demand, r5.ret),
        a.writable)

finish_calculation(a, r1, r2, r3, r4, r5, m, rets, result, saved) ==
    IF r1.raised THEN Aborted(r1.rows, a.data_file, <<>>, FALSE)
    ELSE IF r2.raised THEN Aborted(r2.rows, a.data_file, <<r1.ret>>, FALSE)
    ELSE IF r3.raised THEN Aborted(r3.rows, a.data_file, <<r1.ret, r2.ret>>, FALSE)
    ELSE IF r4.raised
         THEN Aborted(r4.rows, a.data_file, <<r1.ret, r2.ret, r3.ret>>, FALSE)
    ELSE IF r5.raised THEN Aborted(r5.rows, a.data_file, rets, TRUE)
    ELSE IF saved.raised THEN Aborted(r5.rows, a.data_file, Append(rets, r5.ret), TRUE)
    ELSE [rows |-> r5.rows, ledger |-> saved.ledger, raised |-> FALSE,
          result |-> result, rets |-> Append(rets, r5.ret), computed |-> TRUE,
          numbers |-> m]

save_and_return(a, r1, r2, r3, r4, r5, m, result) ==
    finish_calculation(a, r1, r2, r3, r4, r5, m,
        <<r1.ret, r2.ret, r3.ret>> \o (IF r3.known THEN <<r4.ret>> ELSE <<>>),
        result, save_result(a, r1, r2, r3, r4, r5, m, result))

\* the numbers of one calculation (pricing.py:12-22, 28-29, 40-41, 43-119, 130)
price_numbers(a, requirements, market_demand, is_known, reference, height_val, weight_val, dim) ==
    [requirements |-> requirements,
     is_digital |-> requirements.is_digital,
     market_demand |-> market_demand,
     height_val |-> height_val,
     weight_val |-> weight_val,
     dim |-> dim,
     weight_info |-> IF weight_val > 0 THEN [kg |-> weight_val] ELSE [none |-> TRUE],
     price |-> price_of(a.values, a.materiaux_selectionnes, market_demand, is_known,
                        reference, requirements.is_digital, dim.factor),
     materials_text |-> IF a.materiaux_selectionnes # <<>>
                        THEN [joined |-> a.materiaux_selectionnes]
                        ELSE [joined |-> <<"None">>]]

dimensions_and_price(a, requirements, market_demand, is_known, reference, height_val, weight_val) ==
    price_numbers(a, requirements, market_demand, is_known, reference, height_val,
                  weight_val,
                  dimension_factor_of(a.values, requirements.is_digital, a.is_3d,
                                      height_val, weight_val))

numbers_of(a, requirements, match, is_known, reference) ==
    dimensions_and_price(a, requirements,
        IF match.found THEN IntOf(match.text) ELSE 5,
        is_known, reference,
        IF a.is_3d \/ requirements.needs_height THEN ValueGet(a.values, "hauteur") ELSE 0,
        IF a.is_3d \/ requirements.needs_weight THEN ValueGet(a.values, "poids") ELSE 0)

\* the request for a recommended price and the end (pricing.py:121-157)
recommend_and_save(a, r1, r2, r3, r4, m, r5) ==
    save_and_return(a, r1, r2, r3, r4, r5, m, price_result(a, r1, r2, r3, r4, r5, m))

with_numbers(a, r1, r2, r3, r4, m) ==
    recommend_and_save(a, r1, r2, r3, r4, m,
        get_starting_price_from_gpt(r4.rows, a.type_produit, a.artiste, a.marche,
            a.materiaux_selectionnes, m.dim.dimensions, m.weight_info,
            IF "resolution" \in DOMAIN a.values THEN a.values["resolution"]
            ELSE [none |-> TRUE],
            IF "duration" \in DOMAIN a.values THEN a.values["duration"]
            ELSE [none |-> TRUE],
            m.is_digital, a.oracle.recommendation))

\* the reference price is asked for only when the artist is known (pricing.py:33-35)
with_reference(a, r1, r2, r3, r4) ==
    with_numbers(a, r1, r2, r3, r4,
        numbers_of(a, pricing_requirements(r1.ret), FirstDigits(r2.ret), r3.known, r4))

\* the reference price asked for whatever the answer about the artist
with_artist_always_asks(a, r1, r2, r3) ==
    with_reference(a, r1, r2, r3,
        get_artist_price(r3.rows, a.artiste, a.type_produit, a.oracle.artist_price))

\* the reference price, asked for a known artist only (pricing.py:33-35)
with_artist(a, r1, r2, r3) ==
    with_reference(a, r1, r2, r3,
        IF r3.known
        THEN get_artist_price(r3.rows, a.artiste, a.type_produit, a.oracle.artist_price)
        ELSE [rows |-> r3.rows, ret |-> <<>>, raised |-> FALSE, some |-> FALSE,
              price |-> QInt(0)])

\* the demand rating (pricing.py:25-27), then the artist (pricing.py:32)
with_demand(a, r1, r2) ==
    with_artist(a, r1, r2, check_known_artist(r2.rows, a.artiste, a.oracle.artist))

with_requirements(a, r1) ==
    with_demand(a, r1,
        consult_api_gemini(r1.rows, [ask |-> "demand", type |-> a.type_produit,
                                     marche |-> a.marche],
                           "general", a.oracle.demand))

\* pricing.calculate_price. oracle: what the remote model does with each of
\* the requests; writable: whether the ledger file can be appended to.
\* Of the record it yields, rets are the texts consult_api_gemini returned, in
\* order, and computed says that the price had been computed when it ended.
calculate_price_of(a) ==
    with_requirements(a,
        get_product_type_requirements(a.rows, a.type_produit, a.oracle.requirements))

calculate_price(rows, data_file, values, type_produit, artiste, marche, materiaux_selectionnes, is_3d, oracle, writable) ==
    calculate_price_of([rows |-> rows, data_file |-> data_file, values |-> values,
                        type_produit |-> type_produit, artiste |-> artiste,
                        marche |-> marche,
                        materiaux_selectionnes |-> materiaux_selectionnes,
                        is_3d |-> is_3d, oracle |-> oracle, writable |-> writable])

----------------------------------------------------------------------------
(* Values of the form and answers of the oracle used by the form model *)

TXT_empty == <<>>
TXT_Other == <<"O", "t", "h", "e", "r">>
TXT_Painting == <<"P", "a", "i", "n", "t", "i", "n", "g">>
TXT_height == <<"H", "e", "i", "g", "h", "t">>
TXT_429 == <<"4", "2", "9">>
TXT_7 == <<"7">>
TXT_high == <<"h", "i", "g", "h">>
TXT_aborted == <<"C", "o", "n", "n", "e", "c", "t", "i", "o", "n", " ", "a", "b", "o", "r", "t", "e", "d", ".">>
TXT_Yes == <<"Y", "e", "s">>
TXT_No == <<"N", "o">>
TXT_1200 == <<"1", " ", "2", "0", "0">>
TXT_unknown == <<"u", "n", "k", "n", "o", "w", "n">>
TXT_0 == <<"0">>
TXT_Canvas == <<"C", "a", "n", "v", "a", "s">>
TXT_150 == <<"1", "5", "0">>
TXT_digital == <<"d", "i", "g", "i", "t", "a", "l">>
TXT_Sculpture == <<"S", "c", "u", "l", "p", "t", "u", "r", "e">>
TXT_artist == <<"A", "n", "a">>
TXT_market == <<"P", "a", "r", "i", "s">>
TXT_Oil == <<"O", "i", "l">>
TXT_4K == <<"4", "K", " ", "(", "2", "1", "6", "0", "p", ")">>

\* product types the combobox offers in the form model
ComboTypes == {TXT_Other, TXT_Painting}

\* what the remote model may do with a classification request of the form
FormOutcomes == {Answer(TXT_height), Raises(TXT_429)}

\* what it does with the two requests of a product-type change; their answers
\* only shape the fixed widgets and the material lists
ToggleOutcomes == {Answer(TXT_height)}

----------------------------------------------------------------------------
(* The debounce controller and the classification, src/ui.py *)

\* last_op: the handler that ran in the last step, the text it worked on and
\* whether it went on to classify; "env" stands for a step without a handler
\* had_timer: start_input_check_timer, or toggle_other_type_entry, found a
\* timer pending when it was called
\* keys of self.entries made by create_cost_section
EntryKeys == {"materiaux", "livraison", "pub", "temps", "longueur", "largeur",
              "hauteur", "poids", "duration"}

\* the result Text widget when empty
NoText == [kind |-> "empty"]
\* the global error Label when cleared
NoError == [kind |-> "none"]

\* AdminDashboard.df and csv_path when they are None
NoFrame == [none |-> TRUE]
NoPath == ""

NoOp == [op |-> "env", value |-> <<>>, classified |-> FALSE, had_timer |-> FALSE]

Op(name, value, classified) ==
    [op |-> name, value |-> value, classified |-> classified,
     had_timer |-> name \in {"start_input_check_timer", "toggle_other_type_entry"}
                   /\ after_timers # {}]

\* the form after PricingCalculatorUI.__init__, with empty database and ledger
InitUI ==
    /\ entry_other_type = <<>>
    /\ var_type = TXT_empty
    /\ focus = FALSE
    /\ key_bound = FALSE
    /\ input_timer = None
    /\ after_timers = {}
    /\ last_other_value = <<>>
    /\ since_key = typing_pause_interval
    /\ stack = <<>>
    /\ additional_fields_entries = {}
    /\ interactions = <<>>
    /\ settled_calls = 0
    /\ pause_calls = 0
    /\ last_op = NoOp
    /\ entry_artist = <<>>
    /\ entry_market = <<>>
    /\ entries = [key \in EntryKeys |-> <<>>]
    /\ listbox_canvas = DEFAULT_CANVAS_MATERIALS
    /\ listbox_other = DEFAULT_OTHER_MATERIALS
    /\ canvas_selection = {}
    /\ other_selection = {}
    /\ entry_canvas_material = <<>>
    /\ entry_other_material = <<>>
    /\ result_text = NoText
    /\ global_error_label = NoError
    /\ ledger = initialize_data_file(FALSE, <<>>)
    /\ oracle_log = <<>>
    /\ df = NoFrame
    /\ csv_path = NoPath
    /\ filter_var = "All"
    /\ filter_entry = <<>>
    /\ tree_columns = <<>>

\* no direct call of the engine
NoCall == [made |-> FALSE]
NoReturn == [returned |-> FALSE]

Init ==
    /\ InitUI
    /\ call = NoCall
    /\ returned = NoReturn

\* start_input_check_timer that leaves the old timer pending
start_input_check_timer_nocancel(timers, current, text) ==
    LET current_value == Strip(text)
    IN IF current_value = <<>>
       THEN [timers |-> timers, input_timer |-> current]
       ELSE LET id == FreshId(timers, current)
            IN [timers |-> after(timers, id, typing_pause_interval, current_value),
                input_timer |-> id]

\* start_input_check_timer that tests the raw text for emptiness
start_input_check_timer_nostrip(timers, current, text) ==
    LET cancelled == IF current # None THEN after_cancel(timers, current) ELSE timers
    IN IF text = <<>>
       THEN [timers |-> cancelled, input_timer |-> current]
       ELSE LET id == FreshId(cancelled, current)
            IN [timers |-> after(cancelled, id, typing_pause_interval, Strip(text)),
                input_timer |-> id]

\* start_input_check_timer that does not keep the id of the timer it arms
start_input_check_timer_unstored(timers, current, text) ==
    LET cancelled == IF current # None THEN after_cancel(timers, current) ELSE timers
        current_value == Strip(text)
    IN IF current_value = <<>>
       THEN [timers |-> cancelled, input_timer |-> current]
       ELSE LET id == FreshId(cancelled, current)
            IN [timers |-> after(cancelled, id, typing_pause_interval, current_value),
                input_timer |-> current]

\* start_input_check_timer: Tk's timers and self.input_timer afterwards
start_input_check_timer(timers, current, text) ==
    LET cancelled == IF current # None THEN after_cancel(timers, current) ELSE timers
        current_value == Strip(text)
    IN IF current_value = <<>>
       THEN [timers |-> cancelled, input_timer |-> current]
       ELSE LET id == FreshId(cancelled, current)
            IN [timers |-> after(cancelled, id, typing_pause_interval, current_value),
                input_timer |-> id]

\* update_additional_costs_for_other_type up to root.update(): the frame it
\* leaves on the stack, or none when it returns on an empty custom type
update_begin(text) ==
    LET custom_type == Strip(text)
    IN IF custom_type = <<>> THEN <<>>
       ELSE <<[proc |-> "update_additional_costs_for_other_type",
               custom_type |-> custom_type]>>

\* the user presses a key in the field: the Entry inserts the character or
\* deletes the last one (no handler of the form is bound to <KeyPress>)
KeyPress ==
    /\ focus
    /\ \E new \in {Append(entry_other_type, c) : c \in TypeChars}
              \cup {SubSeq(entry_other_type, 1, Len(entry_other_type) - 1)} :
          /\ Len(new) <= MaxLen
          /\ new # entry_other_type
          /\ entry_other_type' = new
          /\ settled_calls' = IF Strip(new) # Strip(entry_other_type) THEN 0
                              ELSE settled_calls
    /\ last_op' = NoOp
    /\ UNCHANGED <<var_type, focus, key_bound, input_timer, after_timers,
                   last_other_value, since_key, stack, additional_fields_entries,
                   interactions, pause_calls>>
    /\ UNCHANGED <<fieldVars, listVars, outVars, engineVars, adminVars, global_error_label,
                   oracle_log>>

\* <KeyRelease> on the field: start_input_check_timer(event)
KeyRelease ==
    /\ focus /\ key_bound
    /\ HasFreshId(after_timers, input_timer)
    /\ LET r == start_input_check_timer(after_timers, input_timer, entry_other_type)
       IN /\ after_timers' = r.timers
          /\ input_timer' = r.input_timer
    /\ since_key' = 0
    /\ pause_calls' = 0
    /\ last_op' = Op("start_input_check_timer", Strip(entry_other_type), FALSE)
    /\ UNCHANGED <<entry_other_type, var_type, focus, key_bound, last_other_value,
                   stack, additional_fields_entries, interactions, settled_calls>>
    /\ UNCHANGED <<fieldVars, listVars, outVars, engineVars, adminVars, global_error_label,
                   oracle_log>>

Min(a, b) == IF a < b THEN a ELSE b
Max(a, b) == IF a > b THEN a ELSE b

\* time passes
Tick ==
    /\ \/ since_key < typing_pause_interval
       \/ \E t \in after_timers : t.remaining > 0
    /\ after_timers' = {[t EXCEPT !.remaining = Max(0, t.remaining - TickMs)] :
                           t \in after_timers}
    /\ since_key' = Min(typing_pause_interval, since_key + TickMs)
    /\ last_op' = NoOp
    /\ UNCHANGED <<entry_other_type, var_type, focus, key_bound, input_timer,
                   last_other_value, stack, additional_fields_entries,
                   interactions, settled_calls, pause_calls>>
    /\ UNCHANGED <<fieldVars, listVars, outVars, engineVars, adminVars, global_error_label,
                   oracle_log>>

\* finish_typing that never compares
typing_finished_always(value, current_value) == TRUE

\* finish_typing that never finds the text settled
typing_finished_never(value, current_value) == FALSE

\* finish_typing, "if value == current_value"
typing_finished(value, current_value) == value = current_value

\* a due timer fires: finish_typing(value)
finish_typing ==
    \E t \in after_timers :
        /\ t.remaining = 0
        /\ LET value == t.value
               current_value == Strip(entry_other_type)
               pending == after_timers \ {t}
           IN IF typing_finished(value, current_value)
              THEN /\ Len(stack) < MaxDepth
                   /\ last_other_value' = value
                   /\ additional_fields_entries' = {}
                   /\ stack' = stack \o update_begin(entry_other_type)
                   /\ after_timers' = pending
                   /\ pause_calls' = pause_calls + 1
                   /\ last_op' = Op("finish_typing", value, TRUE)
                   /\ UNCHANGED input_timer
              ELSE /\ HasFreshId(pending, input_timer)
                   /\ LET r == start_input_check_timer(pending, input_timer,
                                                       entry_other_type)
                      IN /\ after_timers' = r.timers
                         /\ input_timer' = r.input_timer
                   /\ last_op' = Op("finish_typing", value, FALSE)
                   /\ UNCHANGED <<last_other_value, additional_fields_entries, stack,
                                  pause_calls>>
        /\ UNCHANGED <<entry_other_type, var_type, focus, key_bound, since_key,
                       interactions, settled_calls>>
    /\ UNCHANGED <<fieldVars, listVars, outVars, engineVars, adminVars, global_error_label,
                   oracle_log>>

\* the field gets the focus (it is shown only while the type is Other)
FocusIn ==
    /\ ~focus
    /\ var_type = TXT_Other
    /\ focus' = TRUE
    /\ last_op' = NoOp
    /\ UNCHANGED <<entry_other_type, var_type, key_bound, input_timer, after_timers,
                   last_other_value, since_key, stack, additional_fields_entries,
                   interactions, settled_calls, pause_calls>>
    /\ UNCHANGED <<fieldVars, listVars, outVars, engineVars, adminVars, global_error_label,
                   oracle_log>>

\* <FocusOut> on the field: update_additional_costs_for_other_type(event)
FocusOut ==
    /\ focus
    /\ Len(stack) < MaxDepth
    /\ focus' = FALSE
    /\ additional_fields_entries' = {}
    /\ stack' = stack \o update_begin(entry_other_type)
    /\ last_op' = Op("FocusOut", Strip(entry_other_type), Strip(entry_other_type) # <<>>)
    /\ UNCHANGED <<entry_other_type, var_type, key_bound, input_timer, after_timers,
                   last_other_value, since_key, interactions, settled_calls,
                   pause_calls>>
    /\ UNCHANGED <<fieldVars, listVars, outVars, engineVars, adminVars, global_error_label,
                   oracle_log>>

\* self.entries after the dynamic fields of the keys were created
with_entries(old, keys) ==
    [key \in DOMAIN old \cup keys |-> IF key \in keys THEN <<>> ELSE old[key]]

\* root.update() returns in the innermost update_additional_costs_for_other_type:
\* the oracle is asked about the custom type read before root.update(); its
\* answer and the profile read from it are computed once and bound
update_additional_costs_step(outcomes) ==
    /\ stack # <<>>
    /\ stack[Len(stack)].proc = "update_additional_costs_for_other_type"
    /\ \E outcome \in outcomes :
        \E frame \in {stack[Len(stack)]} :
        \E r \in {get_product_type_requirements(interactions, frame.custom_type, outcome)} :
        \E requirements \in {other_type_requirements(r.ret)} :
        \E keys \in {required_field_keys(requirements)} :
           /\ interactions' = r.rows
           /\ oracle_log' = Append(oracle_log, r.ret)
           /\ additional_fields_entries' = additional_fields_entries \cup keys
           /\ entries' = with_entries(entries, keys)
           /\ last_op' = Op("classify", frame.custom_type, TRUE)
    /\ stack' = SubSeq(stack, 1, Len(stack) - 1)
    /\ settled_calls' = settled_calls + 1
    /\ global_error_label' = NoError
    /\ UNCHANGED <<entry_other_type, var_type, focus, key_bound, input_timer,
                   after_timers, last_other_value, since_key, pause_calls>>
    /\ UNCHANGED <<entry_artist, entry_market, entry_canvas_material,
                   entry_other_material, listVars, outVars, engineVars, adminVars>>

\* ... while the rows of the interaction table stay within the model's bound
update_additional_costs_for_other_type ==
    /\ Len(interactions) < MaxRows
    /\ update_additional_costs_step(FormOutcomes)

\* toggle_other_type_entry that leaves the timer pending
cancel_pending_timer_not(timers, current) == timers

\* toggle_other_type_entry, "if self.input_timer: after_cancel(...)"
cancel_pending_timer(timers, current) ==
    IF current # None THEN after_cancel(timers, current) ELSE timers

\* one run of toggle_other_type_entry's two oracle requests:
\* update_cost_fields_labels, update_materials_section_for_product_type
toggle_requests(rows, product_type, o1, o2) ==
    LET r1 == get_product_type_requirements(rows, product_type, o1)
        r2 == get_recommended_materials(r1.rows, product_type, o2)
    IN [rows |-> r2.rows, rets |-> <<r1.ret, r2.ret>>, items |-> listbox_items(r2.ret)]

\* the user picks a product type: var_type is written, and both traces
\* registered on it run toggle_other_type_entry, one after the other
toggle_other_type_entry_step ==
    /\ ~focus
    /\ \E product_type \in ComboTypes, o1 \in ToggleOutcomes, o2 \in ToggleOutcomes :
        /\ var_type' = product_type
        /\ IF product_type = TXT_Other
           THEN /\ key_bound' = TRUE
                /\ UNCHANGED <<input_timer, after_timers>>
           ELSE /\ after_timers' = cancel_pending_timer(after_timers, input_timer)
                /\ input_timer' = None
                /\ UNCHANGED key_bound
        /\ LET first == toggle_requests(interactions, product_type, o1, o2)
               second == toggle_requests(first.rows, product_type, o1, o2)
           IN /\ interactions' = second.rows
              /\ oracle_log' = oracle_log \o first.rets \o second.rets
              /\ listbox_canvas' = second.items.canvas
              /\ listbox_other' = second.items.other
        /\ last_op' = Op("toggle_other_type_entry", product_type, FALSE)
    /\ canvas_selection' = {}
    /\ other_selection' = {}
    /\ global_error_label' = NoError
    /\ UNCHANGED <<entry_other_type, focus, last_other_value, since_key, stack,
                   additional_fields_entries, settled_calls, pause_calls>>
    /\ UNCHANGED <<fieldVars, outVars, engineVars, adminVars>>

\* ... while the rows of the interaction table stay within the model's bound
toggle_other_type_entry ==
    /\ Len(interactions) + 4 <= MaxRows
    /\ toggle_other_type_entry_step

Next ==
    \/ KeyPress
    \/ KeyRelease
    \/ Tick
    \/ finish_typing
    \/ FocusIn
    \/ FocusOut
    \/ update_additional_costs_for_other_type
    \/ toggle_other_type_entry

Spec == Init /\ [][Next]_vars

----------------------------------------------------------------------------
(* Claims about the debounce controller *)

Top == stack[Len(stack)]

\* C1: a classification started by finish_typing happens only when at least
\* typing_pause_interval has passed since the last key event, at most once
\* per pause, and it works on the text the field holds at that moment.
C1_DebounceOncePerPause ==
    /\ pause_calls <= 1
    /\ (last_op.op = "finish_typing" /\ last_op.classified) =>
          /\ since_key >= typing_pause_interval
          /\ last_op.value = Strip(entry_other_type)
          /\ stack # <<>>
          /\ Top.custom_type = Strip(entry_other_type)

C1_Witness ==
    /\ last_op.op = "finish_typing"
    /\ last_op.classified
    /\ last_op.value = <<"a", "a">>
    /\ pause_calls = 1

\* C2: when the timer fires with the captured value equal to the live
\* stripped text, the classification is invoked once (one invocation is
\* entered, for that text) and no timer is left armed; when they differ,
\* nothing is classified and the timer is armed as start_input_check_timer
\* arms it for the live text.
C2_TimerFired ==
    [][last_op'.op = "finish_typing" =>
        IF last_op'.value = Strip(entry_other_type)
        THEN /\ last_op'.classified
             /\ stack' = Append(stack, [proc |-> "update_additional_costs_for_other_type",
                                        custom_type |-> last_op'.value])
             /\ after_timers' = {}
        ELSE /\ ~last_op'.classified
             /\ stack' = stack
             /\ interactions' = interactions
             /\ after_timers' =
                  IF Strip(entry_other_type) = <<>> THEN {}
                  ELSE {[id |-> input_timer', value |-> Strip(entry_other_type),
                         remaining |-> typing_pause_interval]}]_vars

C2_Witness ==
    /\ last_op.op = "finish_typing"
    /\ ~last_op.classified
    /\ last_op.value = <<"a">>
    /\ after_timers = {[id |-> input_timer, value |-> <<"a", "a">>,
                        remaining |-> typing_pause_interval]}

\* C3: after start_input_check_timer no earlier timer is pending; a timer is
\* armed iff the stripped text is non-empty, it holds that text and runs for
\* typing_pause_interval, which is 1000 ms.
C3_StartInputCheckTimer ==
    last_op.op = "start_input_check_timer" =>
        /\ typing_pause_interval = 1000
        /\ after_timers =
             IF Strip(entry_other_type) = <<>> THEN {}
             ELSE {[id |-> input_timer, value |-> Strip(entry_other_type),
                    remaining |-> typing_pause_interval]}

C3_Witness ==
    /\ last_op.op = "start_input_check_timer"
    /\ last_op.had_timer
    /\ after_timers = {[id |-> input_timer, value |-> <<"a", "a">>,
                        remaining |-> 1000]}

\* C4: whenever the classification oracle call is issued for the custom
\* product type, the text it classifies is the live text of the field.
C4_NeverStale ==
    last_op.op = "classify" => last_op.value = Strip(entry_other_type)

\* C5: for one settled value of the custom product-type text at most one
\* classification call is issued, whatever triggers it.
C5_OncePerSettledValue == settled_calls <= 1

----------------------------------------------------------------------------
(* The Calculate button: PricingCalculatorUI.calculate_price, src/ui.py *)

\* rows the interaction table may hold before the form model stops asking
MaxCalcRows == 14

TXT_blank == <<" ">>
TXT_5 == <<"5">>
TXT_minus5 == <<"-", "5">>
TXT_Installation == <<"I", "n", "s", "t", "a", "l", "l", "a", "t", "i", "o", "n">>

\* what the user may type into the artist, market and numeric fields; the
\* numeric fields typed into; the items of the left list clicked
ArtistTexts == {<<>>, TXT_blank, TXT_artist}
MarketTexts == {<<>>, TXT_market}
NumberTexts == {<<>>, TXT_5, TXT_minus5}
EditableKeys == {"materiaux"}
PickCanvas == {1}

\* what the remote model does with the requests of one calculation of the form
CalcOracles ==
    {[requirements |-> Answer(TXT_height), demand |-> Answer(TXT_7),
      artist |-> Answer(TXT_No), artist_price |-> Answer(TXT_unknown),
      recommendation |-> Answer(TXT_150)],
     [requirements |-> Answer(TXT_height), demand |-> Raises(TXT_429),
      artist |-> Answer(TXT_Yes), artist_price |-> Answer(TXT_1200),
      recommendation |-> Raises(TXT_429)],
     [requirements |-> Raises(TXT_429), demand |-> Answer(TXT_7),
      artist |-> Answer(TXT_No), artist_price |-> Answer(TXT_unknown),
      recommendation |-> Answer(TXT_150)]}

\* float(entry.get()), 0 on ValueError; the texts typed hold whole numbers
ParseFloat(text) ==
    LET t == Strip(text)
        digits == IF t # <<>> /\ Head(t) = "-" THEN Tail(t) ELSE t
    IN IF digits # <<>> /\ \A i \in 1..Len(digits) : digits[i] \in Digits
       THEN IF t = digits THEN IntOf(digits) ELSE -IntOf(digits)
       ELSE 0

\* the materials one listbox contributes to get_all_materials, from index i on
RECURSIVE listbox_materials(_, _, _, _)
listbox_materials(items, selection, custom, i) ==
    IF i > Len(items) THEN <<>>
    ELSE (IF i \notin selection THEN <<>>
          ELSE IF items[i] = TXT_Other
               THEN (IF Strip(custom) # <<>> THEN <<Strip(custom)>> ELSE <<>>)
               ELSE <<items[i]>>)
         \o listbox_materials(items, selection, custom, i + 1)

get_all_materials ==
    listbox_materials(listbox_canvas, canvas_selection, entry_canvas_material, 1)
    \o listbox_materials(listbox_other, other_selection, entry_other_material, 1)

\* the validation without its check of the materials
validate_inputs_nomaterials(artist, market, product_type, selected_materials) ==
    IF artist = <<>> THEN "Please enter an artist name"
    ELSE IF market = <<>> THEN "Please enter a target market"
    ELSE IF product_type = <<>> THEN "Please select or specify a product type"
    ELSE ""

\* the validation of calculate_price: the message of the ValueError raised,
\* "" when none is
validate_inputs(artist, market, product_type, selected_materials) ==
    IF artist = <<>> THEN "Please enter an artist name"
    ELSE IF market = <<>> THEN "Please enter a target market"
    ELSE IF product_type = <<>> THEN "Please select or specify a product type"
    ELSE IF selected_materials = <<>> THEN "Please select at least one material"
    ELSE ""

\* what calculate_price reads from the form
form_product_type == IF var_type = TXT_Other THEN Strip(entry_other_type) ELSE var_type
form_values == [key \in DOMAIN entries |-> Num(ParseFloat(entries[key]))]

\* the step of the Calculate handler and what it came to
\* seen: the answer to the requirements request and the flags made of it
CalcOp(outcome, computed, writable, seen) ==
    [op |-> "calculate_price", outcome |-> outcome, computed |-> computed,
     writable |-> writable, seen |-> seen]

NotSeen == [some |-> FALSE]
Seen(r) ==
    [some |-> TRUE, response |-> r.rets[1], profile |-> r.numbers.requirements,
     height_val |-> r.numbers.height_val, weight_val |-> r.numbers.weight_val,
     values |-> form_values]

\* the user types into the artist field
TypeArtist ==
    /\ \E text \in ArtistTexts \ {entry_artist} : entry_artist' = text
    /\ last_op' = NoOp
    /\ UNCHANGED <<entry_other_type, var_type, focus, key_bound, input_timer,
                   after_timers, last_other_value, since_key, stack,
                   additional_fields_entries, interactions, settled_calls, pause_calls>>
    /\ UNCHANGED <<entry_market, entries, entry_canvas_material, entry_other_material,
                   listVars, outVars, engineVars, adminVars, global_error_label, oracle_log>>

\* the user types into the target-market field
TypeMarket ==
    /\ \E text \in MarketTexts \ {entry_market} : entry_market' = text
    /\ last_op' = NoOp
    /\ UNCHANGED <<entry_other_type, var_type, focus, key_bound, input_timer,
                   after_timers, last_other_value, since_key, stack,
                   additional_fields_entries, interactions, settled_calls, pause_calls>>
    /\ UNCHANGED <<entry_artist, entries, entry_canvas_material, entry_other_material,
                   listVars, outVars, engineVars, adminVars, global_error_label, oracle_log>>

\* the user types into a numeric field
type_number(keys, texts) ==
    /\ \E key \in keys \cap DOMAIN entries, text \in texts :
        /\ entries[key] # text
        /\ entries' = [entries EXCEPT ![key] = text]
    /\ last_op' = NoOp
    /\ UNCHANGED <<entry_other_type, var_type, focus, key_bound, input_timer,
                   after_timers, last_other_value, since_key, stack,
                   additional_fields_entries, interactions, settled_calls, pause_calls>>
    /\ UNCHANGED <<entry_artist, entry_market, entry_canvas_material,
                   entry_other_material, listVars, outVars, engineVars, adminVars,
                   global_error_label, oracle_log>>

TypeNumber == type_number(EditableKeys, NumberTexts)

\* the user clicks an item of the left material list (selectmode MULTIPLE)
SelectMaterial ==
    /\ \E i \in PickCanvas \cap (1..Len(listbox_canvas)) :
         canvas_selection' = IF i \in canvas_selection
                             THEN canvas_selection \ {i}
                             ELSE canvas_selection \cup {i}
    /\ UNCHANGED other_selection
    /\ last_op' = NoOp
    /\ UNCHANGED <<entry_other_type, var_type, focus, key_bound, input_timer,
                   after_timers, last_other_value, since_key, stack,
                   additional_fields_entries, interactions, settled_calls, pause_calls>>
    /\ UNCHANGED <<fieldVars, listbox_canvas, listbox_other, outVars, engineVars, adminVars,
                   global_error_label, oracle_log>>

\* the user presses Calculate: calculate_price up to its root.update()
Calculate ==
    /\ Len(stack) < MaxDepth
    /\ result_text' = [kind |-> "calculating"]
    /\ stack' = Append(stack, [proc |-> "calculate_price", custom_type |-> <<>>])
    /\ last_op' = NoOp
    /\ UNCHANGED <<entry_other_type, var_type, focus, key_bound, input_timer,
                   after_timers, last_other_value, since_key,
                   additional_fields_entries, interactions, settled_calls, pause_calls>>
    /\ UNCHANGED <<fieldVars, listVars, ledger, engineVars, adminVars, global_error_label,
                   oracle_log>>

\* root.update() returns in the innermost calculate_price: the form is read
\* and validated, the engine is called and its result or the error is shown
ui_calculate_price_step(oracles, writables, max_rows) ==
    /\ stack # <<>>
    /\ stack[Len(stack)].proc = "calculate_price"
    /\ stack' = SubSeq(stack, 1, Len(stack) - 1)
    /\ LET selected_materials == get_all_materials
           product_type == form_product_type
           artist == Strip(entry_artist)
           market == Strip(entry_market)
           error == validate_inputs(artist, market, product_type, selected_materials)
           is_3d == product_type \in {TXT_Sculpture, TXT_Installation}
       IN IF error # ""
          THEN /\ result_text' = [kind |-> "validation", msg |-> error]
               /\ global_error_label' = [kind |-> "validation", msg |-> error]
               /\ last_op' = CalcOp("validation", FALSE, TRUE, NotSeen)
               /\ UNCHANGED <<interactions, ledger, oracle_log>>
          ELSE /\ Len(interactions) + 5 <= max_rows
               /\ \E oracle \in oracles, writable \in writables :
                    LET r == calculate_price(interactions, ledger, form_values,
                                 product_type, artist, market, selected_materials,
                                 is_3d, oracle, writable)
                    IN /\ interactions' = r.rows
                       /\ ledger' = r.ledger
                       /\ oracle_log' = oracle_log \o r.rets
                       /\ IF r.raised
                          THEN /\ result_text' = [kind |-> "error",
                                                  msg |-> "Error calculating price: "]
                               /\ global_error_label' =
                                      [kind |-> "error", msg |-> "Error calculating price: "]
                               /\ last_op' = CalcOp("error", r.computed, writable, NotSeen)
                          ELSE /\ result_text' = [kind |-> "result", result |-> r.result]
                               /\ UNCHANGED global_error_label
                               /\ last_op' = CalcOp("result", r.computed, writable, Seen(r))
    /\ UNCHANGED <<entry_other_type, var_type, focus, key_bound, input_timer,
                   after_timers, last_other_value, since_key,
                   additional_fields_entries, settled_calls, pause_calls>>
    /\ UNCHANGED <<fieldVars, listVars, engineVars, adminVars>>

ui_calculate_price == ui_calculate_price_step(CalcOracles, BOOLEAN, MaxCalcRows)

\* the user picks a product type while the form model runs
select_type ==
    /\ Len(interactions) + 4 <= MaxCalcRows
    /\ toggle_other_type_entry_step

\* main(): the application is closed and started again; the interaction
\* table and the ledger are files and stay, initialize_data_file runs on the
\* existing ledger and a new form is built
main ==
    /\ stack = <<>>
    /\ ledger # <<>>
    /\ ledger' = initialize_data_file(TRUE, ledger)
    /\ entry_other_type' = <<>>
    /\ var_type' = TXT_empty
    /\ focus' = FALSE
    /\ key_bound' = FALSE
    /\ input_timer' = None
    /\ after_timers' = {}
    /\ last_other_value' = <<>>
    /\ since_key' = typing_pause_interval
    /\ additional_fields_entries' = {}
    /\ last_op' = Op("main", <<>>, FALSE)
    /\ entry_artist' = <<>>
    /\ entry_market' = <<>>
    /\ entries' = [key \in EntryKeys |-> <<>>]
    /\ listbox_canvas' = DEFAULT_CANVAS_MATERIALS
    /\ listbox_other' = DEFAULT_OTHER_MATERIALS
    /\ canvas_selection' = {}
    /\ other_selection' = {}
    /\ entry_canvas_material' = <<>>
    /\ entry_other_material' = <<>>
    /\ result_text' = NoText
    /\ global_error_label' = NoError
    /\ UNCHANGED <<stack, interactions, settled_calls, pause_calls, oracle_log,
                   engineVars, adminVars>>

NextCalc ==
    \/ TypeArtist
    \/ TypeMarket
    \/ TypeNumber
    \/ SelectMaterial
    \/ Calculate
    \/ ui_calculate_price
    \/ select_type
    \/ main

SpecCalc == Init /\ [][NextCalc]_vars

----------------------------------------------------------------------------
(* Claims about the Calculate button, the interaction table and the ledger *)

\* what calculate_price is about to read lacks an artist, a market, a
\* product type or a material
MissingInput ==
    \/ Strip(entry_artist) = <<>>
    \/ Strip(entry_market) = <<>>
    \/ form_product_type = <<>>
    \/ get_all_materials = <<>>

\* C6: a Calculate request whose artist, market, product type or material
\* set is missing when the handler reads the form ends in a validation
\* error, and the handler asks the oracle nothing, records no interaction
\* row and appends nothing to the ledger
C6_ValidationBeforeOracle ==
    [][(last_op'.op = "calculate_price" /\ MissingInput) =>
          /\ last_op'.outcome = "validation"
          /\ result_text'.kind = "validation"
          /\ global_error_label' = result_text'
          /\ interactions' = interactions
          /\ oracle_log' = oracle_log
          /\ ledger' = ledger]_vars

\* a type, an artist and a market were given, a calculation had been made,
\* and the next request was refused for its empty material set
C6_Witness ==
    /\ last_op.op = "calculate_price"
    /\ last_op.outcome = "validation"
    /\ result_text = [kind |-> "validation", msg |-> "Please select at least one material"]
    /\ Strip(entry_artist) = TXT_artist
    /\ Len(interactions) = 9
    /\ Len(ledger) = 1

\* the rows of the interaction table are the calls of consult_api_gemini, in
\* order: as many rows as calls, each holding the text its call returned
RowsAreCalls ==
    /\ Len(interactions) = Len(oracle_log)
    /\ \A i \in 1..Len(interactions) :
          /\ interactions[i].id = i
          /\ interactions[i].response = oracle_log[i]

\* C9: every call of consult_api_gemini, whether the request succeeds or
\* raises, records exactly one interaction row whose response is the text
\* returned to the caller; the rows are as many as the calls, and a row once
\* stored is never changed
C9_OneRowPerCall ==
    /\ []RowsAreCalls
    /\ [][/\ Len(interactions') >= Len(interactions)
          /\ SubSeq(interactions', 1, Len(interactions)) = interactions]_vars

\* nine calls, of the form and of a calculation, answered and failed
C9_Witness ==
    /\ Len(interactions) = 9
    /\ interactions[5].response = TXT_height
    /\ interactions[6].response = API_ERROR_PREFIX \o TXT_429
    /\ interactions[6].request_type = "general"
    /\ oracle_log[6] = API_ERROR_PREFIX \o TXT_429

\* C10: when the price was computed and the append to the ledger fails, the
\* result is still returned and shown (with a warning)
C10_LedgerFailureKeepsResult ==
    (last_op.op = "calculate_price" /\ last_op.computed /\ ~last_op.writable) =>
        result_text.kind = "result"

\* C17: no PriceResult is computed from a negative number: when a cost,
\* time, dimension, weight or duration field of the form holds a negative
\* number, a Calculate request does not come to a result
C17_NoNegativeInput ==
    (last_op.op = "calculate_price" /\ last_op.outcome = "result") =>
        \A key \in DOMAIN entries : ParseFloat(entries[key]) >= 0

----------------------------------------------------------------------------
(* pricing.calculate_price called directly, with any behaviour of the oracle *)

\* what the remote model may do with each request of one calculation;
\* TXT_429 is how str() of a quota error of the client library begins
EngineOracles ==
    [requirements : {Answer(TXT_height), Answer(TXT_digital), Raises(TXT_429)},
     demand : {Answer(TXT_7), Answer(TXT_high), Raises(TXT_429), Raises(TXT_aborted)},
     artist : {Answer(TXT_Yes), Answer(TXT_No), Raises(TXT_429)},
     artist_price : {Answer(TXT_1200), Answer(TXT_0), Answer(TXT_unknown),
                     Raises(TXT_429)},
     recommendation : {Answer(TXT_150), Raises(TXT_429)}]

\* the dicts of numeric inputs the engine is called with
EngineValues ==
    {[materiaux |-> Num(10), livraison |-> Num(0), pub |-> Num(0), temps |-> Num(1),
      longueur |-> Num(10), largeur |-> Num(10), hauteur |-> Num(2), poids |-> Num(5)],
     [materiaux |-> Num(10), livraison |-> Num(5), pub |-> Num(5), temps |-> Num(2),
      longueur |-> Num(20), largeur |-> Num(10), hauteur |-> Num(0), poids |-> Num(0),
      duration |-> Num(30), resolution |-> Str(TXT_4K)]}

\* calls with any behaviour of the oracle
GeneralCalls ==
    [made : {TRUE},
     values : EngineValues,
     type_produit : {TXT_Painting, TXT_Sculpture},
     artiste : {TXT_artist},
     marche : {TXT_market},
     materiaux_selectionnes : {<<TXT_Oil>>},
     is_3d : BOOLEAN,
     oracle : EngineOracles,
     writable : BOOLEAN]

\* the pixel sizes at and just below the steps of the digital dimension
\* factor, and one without area
PixelSizes ==
    {<<999, 1000>>, <<1000, 1000>>, <<1999, 2000>>, <<2000, 2000>>, <<3999, 2000>>,
     <<4000, 2000>>, <<0, 1000>>}

PixelValues ==
    {[materiaux |-> Num(10), livraison |-> Num(0), pub |-> Num(0), temps |-> Num(1),
      longueur |-> Num(size[1]), largeur |-> Num(size[2]), hauteur |-> Num(0),
      poids |-> Num(0)] : size \in PixelSizes}

\* calls for a product the oracle describes as digital
PixelCalls ==
    [made : {TRUE},
     values : PixelValues,
     type_produit : {TXT_Painting},
     artiste : {TXT_artist},
     marche : {TXT_market},
     materiaux_selectionnes : {<<TXT_Oil>>},
     is_3d : BOOLEAN,
     oracle : {o \in EngineOracles : o.requirements = Answer(TXT_digital)},
     writable : {TRUE}]

\* the painting of the worked example: 50 x 70, costs 20, 10 and 5, 8 hours
PaintingValues ==
    [materiaux |-> Num(20), livraison |-> Num(10), pub |-> Num(5), temps |-> Num(8),
     longueur |-> Num(50), largeur |-> Num(70), hauteur |-> Num(0), poids |-> Num(0)]

PaintingCalls ==
    [made : {TRUE},
     values : {PaintingValues},
     type_produit : {TXT_Painting},
     artiste : {TXT_artist},
     marche : {TXT_market},
     materiaux_selectionnes : {<<TXT_Canvas, TXT_Oil>>},
     is_3d : {FALSE},
     oracle : {o \in EngineOracles : o.requirements # Answer(TXT_digital)},
     writable : {TRUE}]

EngineCalls == GeneralCalls \cup PixelCalls \cup PaintingCalls

InitEngine ==
    /\ InitUI
    /\ call \in EngineCalls
    /\ returned = NoReturn

\* the call is made and returns, or ends in an exception
Run ==
    /\ call.made
    /\ ~returned.returned
    /\ LET r == calculate_price(interactions, ledger, call.values, call.type_produit,
                                call.artiste, call.marche, call.materiaux_selectionnes,
                                call.is_3d, call.oracle, call.writable)
       IN /\ interactions' = r.rows
          /\ ledger' = r.ledger
          /\ oracle_log' = oracle_log \o r.rets
          /\ returned' = [returned |-> TRUE, raised |-> r.raised, result |-> r.result,
                          computed |-> r.computed, numbers |-> r.numbers]
    /\ UNCHANGED <<entry_other_type, var_type, focus, key_bound, input_timer,
                   after_timers, last_other_value, since_key, stack,
                   additional_fields_entries, settled_calls, pause_calls, last_op>>
    /\ UNCHANGED <<fieldVars, listVars, result_text, call, adminVars, global_error_label>>

NextEngine == Run

SpecEngine == InitEngine /\ [][NextEngine]_vars

----------------------------------------------------------------------------
(* Claims about the engine and failing oracle calls *)

\* C7: whichever of the oracle calls of one price calculation raise,
\* calculate_price completes and returns a PriceResult; no exception leaves
\* it (the ledger being writable: its failure is not one of the oracle)
C7_OracleFailureNeverPropagates ==
    (returned.returned /\ call.writable) =>
        /\ ~returned.raised
        /\ returned.result # NoResult
        /\ Len(ledger) = 1

\* all five requests raised and the result was returned all the same
C7_Witness ==
    /\ returned.returned
    /\ call.writable
    /\ ~call.oracle.requirements.ok
    /\ ~call.oracle.demand.ok
    /\ ~call.oracle.artist.ok
    /\ ~call.oracle.recommendation.ok
    /\ ~returned.raised
    /\ returned.result.gemini_price = API_ERROR_PREFIX \o TXT_429
    /\ Len(interactions) = 4

\* C8: when an oracle call raises, the documented default takes its place
\* whatever the error text: market_demand is 5 when the demand request
\* raises; the artist is not known (and no reference price is asked for)
\* when the recognition request raises
C8_DefaultOnFailure ==
    (returned.returned /\ ~returned.raised) =>
        /\ ~call.oracle.demand.ok => returned.result.demande_marche = 5
        /\ ~call.oracle.artist.ok =>
              /\ ~returned.result.artiste_connu
              /\ \A i \in 1..Len(interactions) :
                    interactions[i].request_type # "artist_price_check"

----------------------------------------------------------------------------
(* Claims about the price formula *)

\* the call has returned a PriceResult
Returned == returned.returned /\ ~returned.raised

\* (materials + shipping + ads + hours * 15) * (1 + 0.1 * material_count)
\* * (0.8 + 0.05 * demand) * dimension_factor
FormulaPrice(values, material_count, demand, dimension_factor) ==
    QMul(QMul(QMul(QInt(values["materiaux"].n + values["livraison"].n
                        + values["pub"].n + values["temps"].n * 15),
                   QAdd(QInt(1), Q(material_count, 10))),
              QAdd(Q(8, 10), Q(5 * demand, 100))),
         dimension_factor)

\* C11: for non-negative inputs without resolution and duration and an
\* artist that is not known, the price returned is
\* (materials + shipping + ads + hours*15) * (1 + 0.1*material_count)
\* * (0.8 + 0.05*demand) * dimension_factor
C11_PriceFormula ==
    (/\ Returned
     /\ ~returned.result.artiste_connu
     /\ "resolution" \notin DOMAIN call.values
     /\ "duration" \notin DOMAIN call.values) =>
        returned.result.prix =
            FormulaPrice(call.values, Len(call.materiaux_selectionnes),
                         returned.result.demande_marche, returned.numbers.dim.factor)

\* 10 of materials and one hour, one material, demand 7, a 10 x 10 painting:
\* 25 * 1.1 * 1.15 * 1 = 31.625
C11_Witness ==
    /\ Returned
    /\ ~returned.result.artiste_connu
    /\ "duration" \notin DOMAIN call.values
    /\ call.values["longueur"].n = 10
    /\ returned.result.demande_marche = 7
    /\ returned.numbers.dim.factor = QInt(1)
    /\ returned.result.prix = Q(253, 8)

\* no reference price
NoReference == [some |-> FALSE, price |-> QInt(0)]

\* the answers to the reference-price request of the call, and the
\* reference price R they hold: the mean of their numbers
ReferenceAnswers ==
    {interactions[i].response : i \in {k \in 1..Len(interactions) :
                                    interactions[k].request_type = "artist_price_check"}}
ReferenceOf(response) ==
    LET matches == FindAllNumbers(response, 1)
    IN [some |-> matches # <<>>,
        price |-> IF matches # <<>>
                  THEN Q(SumSeq([i \in 1..Len(matches) |-> IntOf(RemoveSpaces(matches[i]))]),
                         Len(matches))
                  ELSE QInt(0)]

\* the price of the call had there been no reference price
UnadjustedPrice ==
    price_of(call.values, call.materiaux_selectionnes, returned.result.demande_marche,
             returned.result.artiste_connu, NoReference, returned.numbers.is_digital,
             returned.numbers.dim.factor)

\* C12: when the artist is known and the oracle's answer holds a reference
\* price R (0 included, digital products included), the price returned is
\* (unadjusted price + R) / 2; when the artist is not known no reference
\* price is asked for and the price is the unadjusted one
C12_KnownArtistAveraging ==
    Returned =>
        /\ returned.result.artiste_connu =>
              \A response \in ReferenceAnswers :
                  ReferenceOf(response).some =>
                      returned.result.prix =
                          QDiv(QAdd(UnadjustedPrice, ReferenceOf(response).price), QInt(2))
        /\ ~returned.result.artiste_connu =>
              /\ ReferenceAnswers = {}
              /\ returned.result.prix = UnadjustedPrice

\* the pixel area of the call
PixelArea == call.values["longueur"].n * call.values["largeur"].n

\* C13: for a digital product a pixel area of exactly 1,000,000 has the
\* dimension factor 1.0, exactly 4,000,000 has 1.2 and exactly 8,000,000
\* has 1.5
C13_PixelBoundaries ==
    (Returned /\ returned.numbers.is_digital) =>
        /\ PixelArea = 1000000 => returned.numbers.dim.factor = QInt(1)
        /\ PixelArea = 4000000 => returned.numbers.dim.factor = Q(12, 10)
        /\ PixelArea = 8000000 => returned.numbers.dim.factor = Q(15, 10)

\* a digital product of 4000 x 2000 pixels was priced with the factor 1.5
C13_Witness ==
    /\ Returned
    /\ returned.numbers.is_digital
    /\ PixelArea = 8000000
    /\ returned.numbers.dim.factor = Q(15, 10)
    /\ returned.result.dimensions = [unit |-> "px", dims |-> <<4000, 2000>>]

\* value lies within tolerance of center
Within(value, center, tolerance) ==
    /\ ~QLess(QAdd(center, tolerance), value)
    /\ ~QLess(value, QAdd(center, QMul(QInt(-1), tolerance)))

\* the worked example: a 2D painting that is not digital, materials Canvas
\* and Oil, 50 x 70, costs 20, 10 and 5, 8 hours, demand 7, artist not known
PaintingScenario ==
    /\ Returned
    /\ call.values = PaintingValues
    /\ call.materiaux_selectionnes = <<TXT_Canvas, TXT_Oil>>
    /\ ~call.is_3d
    /\ ~returned.numbers.is_digital
    /\ returned.result.demande_marche = 7
    /\ ~returned.result.artiste_connu

\* C14, as stated: the worked example has the dimension factor 35 and a
\* price of 7486.9, within 0.1
C14_ScenarioAsStated ==
    PaintingScenario =>
        /\ returned.numbers.dim.factor = QInt(35)
        /\ Within(returned.result.prix, Q(74869, 10), Q(1, 10))

\* C14, amended: the worked example has the dimension factor 35 and a price
\* of 155 * 1.2 * 1.15 * 35 = 7486.5, within 0.1
C14_Scenario ==
    PaintingScenario =>
        /\ returned.numbers.dim.factor = QInt(35)
        /\ returned.result.prix = FormulaPrice(PaintingValues, 2, 7, QInt(35))
        /\ Within(returned.result.prix, Q(74865, 10), Q(1, 10))

\* the worked example was priced at 7486.5
C14_Witness ==
    /\ PaintingScenario
    /\ returned.result.prix = Q(74865, 10)
    /\ returned.result.dimensions = [unit |-> "cm", dims |-> <<50, 70>>]

\* C16: the market demand in the PriceResult and in the ledger row is an
\* integer from 1 to 10, whatever the text of the answer to the demand request
C16_DemandInRange ==
    Returned =>
        /\ returned.result.demande_marche \in 1..10
        /\ \A i \in 1..Len(ledger) : ledger[i][15] \in 1..10

----------------------------------------------------------------------------
(* Claims about the requirement fallback of the engine *)

\* the step was a calculation that classified an answer of the oracle
Classified(op) == op.op = "calculate_price" /\ op.seen.some

----------------------------------------------------------------------------
(* Claims about the ledger file *)

\* the column of the header with this name
Col(name) == CHOOSE i \in 1..Len(DATA_HEADER) : DATA_HEADER[i] = name

\* the step is a Calculate request that came to a PriceResult
Completed == last_op'.op = "calculate_price" /\ last_op'.outcome = "result"

\* the row added last holds, column by column, what the header names: the
\* inputs of the form and the fields of the PriceResult shown, the price
\* field apart
RowUnderHeader(row, result) ==
    /\ Len(row) = Len(DATA_HEADER)
    /\ row[Col("Date")] = "now"
    /\ row[Col("Artist")] = Strip(entry_artist)
    /\ row[Col("Market")] = Strip(entry_market)
    /\ row[Col("Type")] = form_product_type
    /\ row[Col("Materials")] = result.materiaux
    /\ row[Col("Length (cm)")] = form_values["longueur"].n
    /\ row[Col("Width (cm)")] = form_values["largeur"].n
    /\ row[Col("Height (cm)")] = result.height
    /\ row[Col("Weight (kg)")] = result.weight
    /\ row[Col("Material Cost (€)")] = form_values["materiaux"].n
    /\ row[Col("Shipping Cost (€)")] = form_values["livraison"].n
    /\ row[Col("Advertising Cost (€)")] = form_values["pub"].n
    /\ row[Col("Creation Time (h)")] = form_values["temps"].n
    /\ row[Col("Market Demand (1-10)")] = result.demande_marche
    /\ row[Col("AI Price Recommendation (€)")] = result.gemini_price

\* one row is added by the step, after the requests of the step were
\* answered: its last field is the answer to the last request recorded
OneRowAfterRequests ==
    /\ Len(ledger') = Len(ledger) + 1
    /\ Len(interactions') > Len(interactions)
    /\ ledger'[Len(ledger')][Col("AI Price Recommendation (€)")]
           = interactions'[Len(interactions')].response

\* the rows the ledger held are still there, in place
RowsKept == SubSeq(ledger', 1, Len(ledger)) = ledger

\* the price field as a number
PriceField(row) == Q(row[Col("Final Price (€)")].cents, 100)

\* C18 as stated: every completed calculation appends one row under the
\* header's columns after its oracle requests, the price field of the row is
\* the price of the PriceResult, and no row is ever changed or removed
C18_AsStated ==
    [][/\ RowsKept
       /\ Completed =>
            /\ OneRowAfterRequests
            /\ RowUnderHeader(ledger'[Len(ledger')], result_text'.result)
            /\ PriceField(ledger'[Len(ledger')]) = result_text'.result.prix
       /\ ~Completed => ledger' = ledger]_vars

\* C18: every completed calculation appends one row under the header's
\* columns after its oracle requests, the price field of the row is the price
\* of the PriceResult written with two decimals (half a cent from it at
\* most), no other step adds a row, and no row is ever changed or removed, by
\* save_to_file or by initialize_data_file at a later start
C18_LedgerRow ==
    [][/\ RowsKept
       /\ Completed =>
            /\ OneRowAfterRequests
            /\ RowUnderHeader(ledger'[Len(ledger')], result_text'.result)
            /\ Within(PriceField(ledger'[Len(ledger')]), result_text'.result.prix,
                      Q(1, 200))
       /\ ~Completed => ledger' = ledger]_vars

\* a second row was added under the first, for a material cost of 5 and
\* a demand of 7: the price is 6.325 and the price field is written with two
\* decimals
C18_Witness ==
    /\ last_op.op = "calculate_price"
    /\ last_op.outcome = "result"
    /\ Len(ledger) = 2
    /\ Len(ledger[2]) = 16
    /\ result_text.result.prix = Q(6325, 1000)
    /\ PriceField(ledger[2]) # result_text.result.prix
    /\ ledger[2][Col("Material Cost (€)")] = 5

----------------------------------------------------------------------------
(* The admin dashboard: AdminDashboard of admin.py over CSV files *)

\* AdminDashboard.default_csv, the ledger of the application
default_csv == "art_pricing_data.csv"

\* a row of the ledger as the application writes it
LedgerLine(artist, market, product_type) ==
    <<"now", artist, market, product_type, TXT_Oil, TXT_0, TXT_0, TXT_empty, TXT_empty,
      TXT_5, TXT_0, TXT_0, TXT_0, TXT_150, TXT_7, TXT_1200>>

\* the CSV files a user of the dashboard can open: the ledger, a table with
\* the French headers rename_map lists, and one with its short English ones
CsvFiles ==
    [filepath \in {default_csv, "tableau.csv", "export.csv"} |->
        CASE filepath = default_csv ->
               [header |-> DATA_HEADER,
                rows |-> <<LedgerLine(TXT_artist, TXT_market, TXT_Painting),
                           LedgerLine(TXT_artist, TXT_market, TXT_Sculpture)>>]
          [] filepath = "tableau.csv" ->
               [header |-> <<"Artiste", "Marché", "Type de produit", "Longueur",
                             "Largeur", "Prix Calculé", "Demande Marché">>,
                rows |-> <<<<TXT_artist, TXT_market, TXT_Painting, TXT_5, TXT_5,
                             TXT_150, TXT_7>>,
                           <<TXT_Oil, TXT_market, TXT_Sculpture, TXT_5, TXT_5,
                             TXT_1200, TXT_7>>>>]
          [] filepath = "export.csv" ->
               [header |-> <<"Artist", "Market", "Type", "Time", "Price", "Demand",
                             "AI Price">>,
                rows |-> <<<<TXT_artist, TXT_market, TXT_Painting, TXT_5, TXT_150,
                             TXT_7, TXT_1200>>>>]]

\* what the file dialog can return: a file, nothing, or a path without file
DialogPaths == DOMAIN CsvFiles \cup {NoPath, "missing.csv"}

\* the choices of the "Filter by" combobox and the search terms typed
FilterTypes == {"All", "Type", "Artist", "Market"}
FilterTexts == {<<>>, <<"a">>, <<"S", "c">>, <<" ">>}

\* rename_map of standardize_column_names
rename_map ==
    [name \in {"Longueur", "Largeur", "Hauteur", "Poids", "Matériaux",
               "Coût Matériaux", "Coût Livraison", "Coût Publicité",
               "Temps Création", "Prix Calculé", "Demande Marché", "gemini_price",
               "Time", "Price", "Demand", "AI Price"} |->
        CASE name = "Longueur" -> "Longueur (cm)"
          [] name = "Largeur" -> "Largeur (cm)"
          [] name = "Hauteur" -> "Hauteur (cm)"
          [] name = "Poids" -> "Poids (kg)"
          [] name = "Matériaux" -> "Materials"
          [] name = "Coût Matériaux" -> "Cost Materials (€)"
          [] name = "Coût Livraison" -> "Cost Shipping (€)"
          [] name = "Coût Publicité" -> "Cost Ads (€)"
          [] name = "Temps Création" -> "Time (h)"
          [] name = "Prix Calculé" -> "Final Price (€)"
          [] name = "Demande Marché" -> "Market Demand (1-10)"
          [] name = "gemini_price" -> "AI Price Recommendation (€)"
          [] name = "Time" -> "Time (h)"
          [] name = "Price" -> "Final Price (€)"
          [] name = "Demand" -> "Market Demand (1-10)"
          [] name = "AI Price" -> "AI Price Recommendation (€)"]

\* pd.read_csv
read_csv(filepath) ==
    [columns |-> CsvFiles[filepath].header, rows |-> CsvFiles[filepath].rows]

\* standardize_column_names: df.rename(columns=rename_map)
standardize_column_names(frame) ==
    [columns |-> [i \in DOMAIN frame.columns |->
                    IF frame.columns[i] \in DOMAIN rename_map
                    THEN rename_map[frame.columns[i]] ELSE frame.columns[i]],
     rows |-> frame.rows]

\* df.insert(0, "Order", range(1, len(df) + 1))
insert_order(frame) ==
    [columns |-> <<"Order">> \o frame.columns,
     rows |-> [i \in DOMAIN frame.rows |-> <<i>> \o frame.rows[i]]]

\* 'name' in frame.columns
HasColumn(frame, name) == \E i \in DOMAIN frame.columns : frame.columns[i] = name

\* frame[frame[name].str.contains(value, case=False, na=False)]
rows_containing(frame, name, value) ==
    LET column == CHOOSE i \in DOMAIN frame.columns : frame.columns[i] = name
        Matches(row) == Contains(Lower(row[column]), Lower(value))
    IN [columns |-> frame.columns, rows |-> SelectSeq(frame.rows, Matches)]

\* the dataframe apply_filter leaves in self.df (admin.py:992-1011): the
\* old one when no column of the filter is found
filtered(old_df, original_df, filter_type, filter_value) ==
    IF filter_type = "All" \/ filter_value = <<>> THEN original_df
    ELSE IF filter_type = "Type"
    THEN IF HasColumn(original_df, "Type de produit")
         THEN rows_containing(original_df, "Type de produit", filter_value)
         ELSE IF HasColumn(original_df, "Type")
         THEN rows_containing(original_df, "Type", filter_value)
         ELSE old_df
    ELSE IF filter_type = "Artist"
    THEN IF HasColumn(original_df, "Artiste")
         THEN rows_containing(original_df, "Artiste", filter_value)
         ELSE IF HasColumn(original_df, "Nom de l'artiste")
         THEN rows_containing(original_df, "Nom de l'artiste", filter_value)
         ELSE old_df
    ELSE IF filter_type = "Market"
    THEN IF HasColumn(original_df, "Marché")
         THEN rows_containing(original_df, "Marché", filter_value)
         ELSE IF HasColumn(original_df, "Marché de vente")
         THEN rows_containing(original_df, "Marché de vente", filter_value)
         ELSE old_df
    ELSE old_df

\* update_treeview: the headings are the columns after "Order"
update_treeview(frame) == Tail(frame.columns)

formVars == <<ctlVars, fieldVars, listVars, outVars, engineVars, global_error_label, oracle_log>>

\* load_csv, from __init__ with the default file or from the file dialog
load_csv_step(filepath) ==
    IF filepath = NoPath \/ filepath \notin DOMAIN CsvFiles
    THEN UNCHANGED <<df, csv_path, tree_columns>>
    ELSE /\ csv_path' = filepath
         /\ df' = insert_order(standardize_column_names(read_csv(filepath)))
         /\ tree_columns' = update_treeview(df')

\* AdminDashboard.__init__: the default file exists (admin.py:1710) and is
\* loaded
AdminDashboard ==
    /\ df = NoFrame
    /\ csv_path = NoPath
    /\ load_csv_step(default_csv)
    /\ UNCHANGED <<filter_var, filter_entry, formVars>>

\* the dashboard is open
Opened == csv_path # NoPath

\* File > Open, or the Choose button
load_csv ==
    /\ Opened
    /\ \E filepath \in DialogPaths : load_csv_step(filepath)
    /\ UNCHANGED <<filter_var, filter_entry, formVars>>

\* the user picks a filter and types a search term
choose_filter ==
    /\ Opened
    /\ \E filter_type \in FilterTypes, text \in FilterTexts :
          /\ filter_var' = filter_type
          /\ filter_entry' = text
    /\ UNCHANGED <<df, csv_path, tree_columns, formVars>>

\* the Apply button
apply_filter ==
    /\ Opened
    /\ IF df = NoFrame \/ csv_path = NoPath
       THEN UNCHANGED <<df, tree_columns>>
       ELSE /\ df' = filtered(df, insert_order(read_csv(csv_path)), filter_var,
                              Strip(filter_entry))
            /\ tree_columns' = update_treeview(df')
    /\ UNCHANGED <<csv_path, filter_var, filter_entry, formVars>>

\* the Reset button
reset_filter ==
    /\ Opened
    /\ IF csv_path # NoPath
       THEN /\ df' = insert_order(read_csv(csv_path))
            /\ tree_columns' = update_treeview(df')
            /\ filter_entry' = <<>>
            /\ filter_var' = "All"
       ELSE UNCHANGED <<df, tree_columns, filter_entry, filter_var>>
    /\ UNCHANGED <<csv_path, formVars>>

NextAdmin ==
    \/ AdminDashboard
    \/ load_csv
    \/ choose_filter
    \/ apply_filter
    \/ reset_filter

SpecAdmin == Init /\ [][NextAdmin]_vars

----------------------------------------------------------------------------
(* Claims about the admin dashboard *)

\* C19: after any sequence of load_csv, apply_filter and reset_filter, no
\* header of the dataframe on display, and no heading of the table, is a
\* synonym listed in rename_map
C19_HeadersNormalized ==
    df # NoFrame =>
        /\ \A i \in DOMAIN df.columns : df.columns[i] \notin DOMAIN rename_map
        /\ \A i \in DOMAIN tree_columns : tree_columns[i] \notin DOMAIN rename_map

----------------------------------------------------------------------------
(* Claims about price computations in flight *)

\* the calculate_price handlers that have started and not finished
InFlight == {i \in DOMAIN stack : stack[i].proc = "calculate_price"}

\* C20: at most one price computation of the form is in flight at any
\* time: a Calculate trigger that arrives while one is pending, the one
\* dispatched by its root.update() included, is not run nested in it
C20_OneComputationInFlight == Cardinality(InFlight) <= 1

----------------------------------------------------------------------------
(* Claims about classifications in flight *)

\* the update_additional_costs_for_other_type calls that have read their
\* custom type and have not returned
Classifying ==
    {i \in DOMAIN stack : stack[i].proc = "update_additional_costs_for_other_type"}

\* C21: update_additional_costs_for_other_type is never entered while an
\* earlier invocation has not returned, so no classification of an older
\* text is left to run after the classification of a newer one
C21_ClassificationsSerialized == Cardinality(Classifying) <= 1

----------------------------------------------------------------------------
(* The form with a custom product type: classification, then Calculate *)

\* rows of the interaction table after which no classification is started,
\* and after which no calculation is
MaxOtherRows == 6
MaxOtherCalcRows == 11

TXT_resolution == <<"d", "i", "g", "i", "t", "a", "l", " ", "r", "e", "s", "o", "l", "u", "t", "i", "o", "n">>
TXT_height_weight == <<"h", "e", "i", "g", "h", "t", ",", " ", "w", "e", "i", "g", "h", "t">>

\* what the remote model answers when asked to classify a custom type
OtherOutcomes == {Answer(TXT_height_weight), Answer(TXT_resolution), Answer(TXT_digital)}

\* ... and when a calculation asks it
OtherOracles ==
    {[requirements |-> outcome, demand |-> Answer(TXT_7), artist |-> Answer(TXT_No),
      artist_price |-> Answer(TXT_unknown), recommendation |-> Answer(TXT_150)] :
        outcome \in OtherOutcomes}

\* the fields update_additional_costs_for_other_type adds to the form
OtherNumberKeys == {"height", "weight"}

\* the two runs of toggle_other_type_entry when Other is picked
picked_other ==
    toggle_requests(
        toggle_requests(<<>>, TXT_Other, Answer(TXT_height), Answer(TXT_height)).rows,
        TXT_Other, Answer(TXT_height), Answer(TXT_height))

\* the form after the user entered an artist, a market and a material cost,
\* picked the product type Other and selected the first material
InitOther ==
    /\ entry_other_type = <<>>
    /\ var_type = TXT_Other
    /\ focus = FALSE
    /\ key_bound = TRUE
    /\ input_timer = None
    /\ after_timers = {}
    /\ last_other_value = <<>>
    /\ since_key = typing_pause_interval
    /\ stack = <<>>
    /\ additional_fields_entries = {}
    /\ interactions = picked_other.rows
    /\ settled_calls = 0
    /\ pause_calls = 0
    /\ last_op = NoOp
    /\ entry_artist = TXT_artist
    /\ entry_market = TXT_market
    /\ entries = [key \in EntryKeys |-> IF key = "materiaux" THEN TXT_5 ELSE <<>>]
    /\ listbox_canvas = picked_other.items.canvas
    /\ listbox_other = picked_other.items.other
    /\ canvas_selection = {1}
    /\ other_selection = {}
    /\ entry_canvas_material = <<>>
    /\ entry_other_material = <<>>
    /\ result_text = NoText
    /\ global_error_label = NoError
    /\ ledger = initialize_data_file(FALSE, <<>>)
    /\ oracle_log = picked_other.rets \o picked_other.rets
    /\ df = NoFrame
    /\ csv_path = NoPath
    /\ filter_var = "All"
    /\ filter_entry = <<>>
    /\ tree_columns = <<>>
    /\ call = NoCall
    /\ returned = NoReturn

\* the custom type is classified
classify_other ==
    /\ Len(interactions) < MaxOtherRows
    /\ update_additional_costs_step(OtherOutcomes)

\* the user types into a field the classification added
TypeSolicited == type_number(OtherNumberKeys, {TXT_5})

\* the calculation of a custom product type
calculate_other == ui_calculate_price_step(OtherOracles, {TRUE}, MaxOtherCalcRows)

\* the user acts while no handler of the form is waiting in root.update():
\* edits the custom type, leaves the field, presses Calculate
edit_other_type == stack = <<>> /\ (FocusIn \/ KeyPress)
leave_other_type == stack = <<>> /\ FocusOut
press_calculate == stack = <<>> /\ Calculate

NextOther ==
    \/ edit_other_type
    \/ leave_other_type
    \/ classify_other
    \/ TypeSolicited
    \/ press_calculate
    \/ calculate_other

SpecOther == InitOther /\ [][NextOther]_vars

----------------------------------------------------------------------------
(* Claims about the fields of a custom product type *)

\* the RequirementProfile of the classification that returned last
NewProfile == other_type_requirements(oracle_log[Len(oracle_log)])

\* C22: after a re-classification for a new custom product type the fields
\* added to self.entries, which Calculate passes to the engine, are exactly
\* those the new profile requires: none added for an earlier type remains
C22_NoCarryOver ==
    last_op.op = "classify" =>
        (DOMAIN entries) \ EntryKeys = required_field_keys(NewProfile) \ EntryKeys

\* C29: when the classification added a height or a weight field to the
\* form, the number the user typed into it is the height or the weight a
\* following Calculate uses in the engine
C29_SolicitedFieldUsed ==
    (last_op.op = "calculate_price" /\ last_op.outcome = "result") =>
        /\ ("height" \in DOMAIN last_op.seen.values /\ last_op.seen.profile.needs_height)
               => last_op.seen.height_val = last_op.seen.values["height"].n
        /\ ("weight" \in DOMAIN last_op.seen.values /\ last_op.seen.profile.needs_weight)
               => last_op.seen.weight_val = last_op.seen.values["weight"].n

----------------------------------------------------------------------------
(* Claims about the order of the oracle requests of one calculation *)

\* what the requests recorded in the interaction table asked for, in order
Asked == [i \in 1..Len(interactions) |-> interactions[i].prompt.ask]

\* C23: the requests of one calculate_price are issued in the order
\* requirements, demand, artist, reference price, price recommendation; the
\* reference price is asked for exactly when the answer about the artist
\* holds a yes; the recommendation is asked for once in every calculation;
\* and the ledger row, when one is written, holds the answer to the last
\* request
C23_RequestOrder ==
    returned.returned =>
        /\ Len(interactions) >= 3
        /\ Asked = <<"requirements", "demand", "artist">>
                   \o (IF Contains(Lower(interactions[3].response), KW_yes)
                       THEN <<"artist_price">> ELSE <<>>)
                   \o <<"price">>
        /\ Len(ledger) <= 1
        /\ ledger # <<>> =>
               ledger[1][Len(DATA_HEADER)] = interactions[Len(interactions)].response

\* a calculation for a known artist ended with its five requests and its row
C23_Witness ==
    /\ returned.returned
    /\ ~returned.raised
    /\ Len(interactions) = 5
    /\ interactions[3].response = TXT_Yes
    /\ interactions[4].prompt.ask = "artist_price"
    /\ Len(ledger) = 1

----------------------------------------------------------------------------
(* Claims about the dimension factor of digital products *)

\* the step function of the pixel area
StepFactor(area) ==
    IF area < 1000000 THEN Q(8, 10)
    ELSE IF area < 4000000 THEN Q(10, 10)
    ELSE IF area < 8000000 THEN Q(12, 10)
    ELSE Q(15, 10)

\* C24: for a digital product and every pixel area from 0 on, the dimension
\* factor is the step function of the area (0.8 below 1,000,000, 1.0 below
\* 4,000,000, 1.2 below 8,000,000, 1.5 from there on), also when the call
\* says the product is three-dimensional
C24_DigitalStepFunction ==
    (Returned /\ returned.numbers.is_digital) =>
        returned.numbers.dim.factor = StepFactor(PixelArea)

----------------------------------------------------------------------------
(* The debounce controller while the product type is changed: the form of
   InitOther, one classification and one change of the product type *)

\* rows of the interaction table after which no classification is started,
\* and rows it may hold after a change of the product type
MaxSwitchClassifyRows == 5
MaxSwitchRows == 9

classify_before_switch ==
    /\ Len(interactions) < MaxSwitchClassifyRows
    /\ update_additional_costs_step(FormOutcomes)

switch_type ==
    /\ Len(interactions) + 4 <= MaxSwitchRows
    /\ toggle_other_type_entry_step

NextSwitch ==
    \/ KeyPress
    \/ KeyRelease
    \/ Tick
    \/ finish_typing
    \/ FocusIn
    \/ FocusOut
    \/ classify_before_switch
    \/ switch_type

SpecSwitch == InitOther /\ [][NextSwitch]_vars

----------------------------------------------------------------------------
(* Claims about the timer and the change of the product type *)

\* C25: when the product type changes from Other to another value, the
\* pending debounce timer is cancelled and input_timer is cleared; while the
\* type is not Other no timer is pending and none fires
C25_SwitchCancelsTimer ==
    var_type # TXT_Other =>
        /\ after_timers = {}
        /\ last_op.op # "finish_typing"
        /\ last_op.op = "toggle_other_type_entry" => input_timer = None

\* the product type was changed to Painting while a timer was pending
C25_Witness ==
    /\ last_op.op = "toggle_other_type_entry"
    /\ last_op.had_timer
    /\ var_type = TXT_Painting
    /\ after_timers = {}
    /\ input_timer = None

\* C28: in every state of the form, whatever the order of key events,
\* firing timers, focus changes and changes of the product type, at most one
\* debounce timer is armed, and an armed timer is the one whose id
\* input_timer holds
C28_OneTimerArmed ==
    /\ Cardinality(after_timers) <= 1
    /\ \A t \in after_timers : t.id = input_timer

\* a timer was re-armed by a firing timer that found the text changed, after
\* a change of the product type
C28_Witness ==
    /\ last_op.op = "finish_typing"
    /\ ~last_op.classified
    /\ Len(interactions) >= 8
    /\ Cardinality(after_timers) = 1
    /\ \E t \in after_timers : t.id = input_timer /\ t.remaining = typing_pause_interval

----------------------------------------------------------------------------
(* Claims about the last classified value *)

\* C26: when the debounce timer fires with a text equal to last_other_value,
\* the text classified last, no classification is started and no oracle
\* request follows from it
C26_NoRedundantCall ==
    [][(last_op'.op = "finish_typing" /\ last_op'.value = last_other_value) =>
          /\ ~last_op'.classified
          /\ stack' = stack]_vars

----------------------------------------------------------------------------
(* The debounce controller under fairness: time passes, due timers fire and
   root.update() returns *)

\* rows the interaction table may hold in this model
MaxLiveRows == 5

classify_settled ==
    /\ Len(interactions) < MaxLiveRows
    /\ update_additional_costs_step(FormOutcomes)

NextLive ==
    \/ KeyPress
    \/ KeyRelease
    \/ Tick
    \/ finish_typing
    \/ FocusIn
    \/ leave_other_type
    \/ classify_settled

SpecLive ==
    /\ InitOther
    /\ [][NextLive]_vars
    /\ WF_vars(Tick)
    /\ WF_vars(finish_typing)
    /\ WF_vars(classify_settled)

\* the non-empty custom types the field can hold, stripped
LiveTexts ==
    {Strip(text) : text \in UNION {[1..n -> TypeChars] : n \in 1..MaxLen}} \ {<<>>}

\* C27: when the custom type is not empty, the type stays Other, a timer is
\* armed and no further key event arrives, a classification request for the
\* text of the field is eventually issued, also after a timer that fired
\* found the text changed and armed another (the rows of the interaction
\* table of the model permitting)
C27_FireAfterQuiescence ==
    \A v \in LiveTexts :
        (var_type = TXT_Other /\ after_timers # {} /\ Strip(entry_other_type) = v)
        ~> \/ last_op.op = "classify" /\ last_op.value = v
           \/ Strip(entry_other_type) # v
           \/ var_type # TXT_Other
           \/ last_op.op = "start_input_check_timer"
           \/ Len(interactions) >= MaxLiveRows

\* a timer that fired found the text changed and armed another for it
C27_Witness ==
    /\ last_op.op = "finish_typing"
    /\ ~last_op.classified
    /\ var_type = TXT_Other
    /\ Strip(entry_other_type) = <<"a", "a">>
    /\ after_timers # {}
    /\ Len(interactions) < MaxLiveRows

----------------------------------------------------------------------------
(* Claims about the keyword fallback *)

\* C30: for every text the oracle returned, the six flags that
\* pricing.calculate_price, update_additional_costs_for_other_type and
\* update_cost_fields_labels derive from it are the same
C30_SameFallback ==
    \A i \in 1..Len(oracle_log) :
        /\ pricing_requirements(oracle_log[i]) = other_type_requirements(oracle_log[i])
        /\ other_type_requirements(oracle_log[i]) = cost_fields_requirements(oracle_log[i])

====
